---- MODULE Spec2Model ----
(***************************************************************************)
(* The test-declaration tree of vscode-jest-test-explorer                  *)
(* (src/src/testNodeManager.ts): the persistent tree of Root / Suite       *)
(* (describe) / Case (it) / Assertion (expect) nodes, built by full        *)
(* discovery, extended by the file-created merge, reconciled after an edit *)
(* of one file, pruned on file deletion and annotated by run reports.      *)
(*                                                                         *)
(* Objects live in `heap`: a node's identity is its index.  Nodes are      *)
(* never freed, so a detached node (a tombstone) stays addressable, as it  *)
(* does for any holder of a reference in the program.                      *)
(* `undefined` lists (children, expects, itBlocks) are the empty sequence: *)
(* every test the code makes on them (`!this.children`, forEach, find)     *)
(* gives the same result for undefined and for [].                         *)
(* An undefined name or file is the empty string, 0 is the undefined node. *)
(***************************************************************************)
EXTENDS Integers, Sequences, FiniteSets, TLC

VARIABLES heap, rootNode, fileTestNodes, jestDirs, op, nOps,
          now, timers, timeoutId, docText, log, runs,
          coverageMap, onCoverageUpdated, arry, offset, lifo,
          disk, discovery, creating, raced

\* The clock, the pending timers of the runtime, the timer handle each
\* debounced procedure keeps, the text of every open document, and the
\* edits and notifications so far.
timing == <<now, timers, timeoutId, docText, log>>

\* The stored coverage map and the number of "coverage updated" events fired.
coverage == <<coverageMap, onCoverageUpdated>>

\* The array and the offset of a Stack, and the items pushed and not yet
\* popped, oldest first.
stack == <<arry, offset, lifo>>

\* The text of every file on disk (0 while the file does not exist), the
\* full discovery in flight with what it has read, the files whose
\* file-created parse is in flight, and the files whose file-created event
\* was handled while a full discovery was in flight.
async == <<disk, discovery, creating, raced>>

vars == <<heap, rootNode, fileTestNodes, jestDirs, op, nOps,
          now, timers, timeoutId, docText, log, runs,
          coverageMap, onCoverageUpdated, arry, offset, lifo,
          disk, discovery, creating, raced>>

\* Number of operations (events handled) in one behaviour.
MaxOps == 3

\* utility.ts: DefaultPosition, one shared object no parsed position is identical to.
DefaultPosition == -1

Files == {"f1", "f2"}

Names == {"A", "B", "x", "y", "A:x"}

\* The project layouts of a workspace: one project holding both files, or
\* one project per file.  Each project lists its files as jest --listTests does.
Layouts == { << <<"f1", "f2">> >>, << <<"f1">>, <<"f2">> >> }

(***************************************************************************)
(* Source parser output (ParseResult).  Positions are line*10 + column.    *)
(***************************************************************************)
NodeLocation(f, s, e) == [file |-> f, start |-> s, end |-> e]

ParseResult(type, name, f, l1, l2, children, expects) ==
    [type |-> type, name |-> name,
     locations |-> <<NodeLocation(f, 10 * l1, 10 * l2 + 1)>>,
     nameLocations |-> <<NodeLocation(f, 10 * l1 + 5, 10 * l1 + 8)>>,
     children |-> children, expects |-> expects]

PExpect(f, name, l) == ParseResult("expect", name, f, l, l, <<>>, <<>>)

PIt(f, name, l, expects) == ParseResult("it", name, f, l, l, <<>>, expects)

PDescribe(f, name, l1, l2, children) ==
    ParseResult("describe", name, f, l1, l2, children, <<>>)

\* The texts a file can hold, as the children of the root ParseResult that
\* parseAST returns for them.
Text(f, t) ==
    CASE t = 1 -> << PDescribe(f, "A", 1, 3, << PIt(f, "x", 2, << PExpect(f, "toBe", 2) >>) >>) >>
      [] t = 2 -> << PDescribe(f, "A", 1, 4, << PIt(f, "x", 2, <<>>), PIt(f, "y", 3, <<>>) >>) >>
      [] t = 3 -> << PDescribe(f, "B", 1, 3, << PIt(f, "y", 2, <<>>) >>) >>
      [] t = 4 -> << >>
      [] t = 5 -> << PDescribe(f, "A", 2, 4, << PIt(f, "x", 3, << PExpect(f, "toEqual", 3) >>) >>) >>
      [] t = 6 -> << PDescribe(f, "A", 1, 4, << PIt(f, "x", 2, <<>>), PIt(f, "x", 3, <<>>) >>) >>
      [] t = 7 -> << PDescribe(f, "A", 1, 2, <<>>) >>
      [] t = 8 -> << PDescribe(f, "A", 1, 3, << PIt(f, "y", 2, <<>>) >>) >>
      [] t = 9 -> << PDescribe(f, "A", 1, 5, << PDescribe(f, "B", 2, 4, << PIt(f, "x", 3, <<>>) >>) >>) >>
      [] t = 10 -> << PIt(f, "A:x", 1, <<>>), PDescribe(f, "B", 2, 4, << PIt(f, "y", 3, <<>>) >>) >>

\* What a full discovery finds in a file, and what a created file holds.
DiscoverTexts == {1, 4, 6}

CreatedTexts == {1, 2, 4}

\* A text babylon cannot parse: babylonParse throws on it.
MalformedTexts == {11}

ChangedTexts == 1 .. 11

(***************************************************************************)
(* Tree nodes (class TestNode and its subclasses).                         *)
(***************************************************************************)
NoMap == [k \in Names |-> 0]

NewNode(type, file, name) ==
    [type |-> type, file |-> file, name |-> name,
     start |-> DefaultPosition, end |-> DefaultPosition,
     nameStart |-> DefaultPosition, nameEnd |-> DefaultPosition,
     running |-> FALSE, parent |-> 0,
     children |-> <<>>, expects |-> <<>>, itBlocks |-> <<>>,
     testResult |-> "", childDescribesMap |-> NoMap,
     foundIn |-> <<>>, nameFoundIn |-> <<>>]

\* getNewParseResult: a DescribeNode and a RootNode carry no file.
getNewParseResult(type, file, name) ==
    CASE type = "root" -> NewNode("root", "", "")
      [] type = "describe" -> NewNode("describe", "", name)
      [] OTHER -> NewNode(type, file, name)

isContainer(h, n) == h[n].type \in {"root", "describe"}

RECURSIVE fqName(_, _)
fqName(h, n) ==
    IF h[n].name = "" THEN ""
    ELSE LET parentName == IF h[n].parent # 0 THEN fqName(h, h[n].parent) ELSE ""
         IN (IF parentName # "" THEN parentName \o ":" ELSE "") \o h[n].name

SeqToSet(s) == {s[i] : i \in 1 .. Len(s)}

Includes(s, x) == \E i \in 1 .. Len(s) : s[i] = x

RECURSIVE Filter(_, _)
Filter(s, keep) ==
    IF s = <<>> THEN <<>>
    ELSE (IF Head(s) \in keep THEN <<Head(s)>> ELSE <<>>) \o Filter(Tail(s), keep)

RECURSIVE FilterOut(_, _)
FilterOut(s, x) ==
    IF s = <<>> THEN <<>>
    ELSE (IF Head(s) # x THEN <<Head(s)>> ELSE <<>>) \o FilterOut(Tail(s), x)

RECURSIVE addItBlock(_, _, _)
addItBlock(h, n, it) ==
    LET h1 == [h EXCEPT ![n].itBlocks = Append(@, it)]
    IN IF h[n].parent # 0 THEN addItBlock(h1, h[n].parent, it) ELSE h1

RECURSIVE addItBlocks(_, _, _)
addItBlocks(h, n, its) ==
    IF its = <<>> THEN h ELSE addItBlocks(addItBlock(h, n, Head(its)), n, Tail(its))

addExpectBlock(h, n, e) == [h EXCEPT ![n].expects = Append(@, e)]

RECURSIVE removeItBlock(_, _, _)
removeItBlock(h, n, it) ==
    LET h1 == [h EXCEPT ![n].itBlocks = FilterOut(@, it)]
    IN IF h[n].parent # 0 THEN removeItBlock(h1, h[n].parent, it) ELSE h1

removeChildNode(h, n, c) ==
    IF ~Includes(h[n].children, c) THEN h
    ELSE LET h1 == [h EXCEPT ![n].children = FilterOut(@, c)]
         IN IF h[c].type = "it" THEN removeItBlock(h1, n, c) ELSE h1

\* DescribeNode.mergeWith's helper: pushes onto thisLocations every entry of
\* otherLocations that has no entry with the same file and start.
RECURSIVE mergeNodeLocations(_, _)
mergeNodeLocations(thisLocations, otherLocations) ==
    IF otherLocations = <<>> THEN thisLocations
    ELSE LET ol == Head(otherLocations)
             tl == {i \in 1 .. Len(thisLocations) :
                      /\ thisLocations[i].file = ol.file
                      /\ thisLocations[i].start = ol.start}
         IN mergeNodeLocations(IF tl = {} THEN Append(thisLocations, ol) ELSE thisLocations,
                               Tail(otherLocations))

RECURSIVE addChildNode(_, _, _)
RECURSIVE mergeWith(_, _, _)
RECURSIVE mergeChildren(_, _, _)
RECURSIVE TestNode_mergeWith(_, _, _)

\* TestNode.addChildNode with a Case folded into a sibling Case of the same
\* name, the way a Suite is folded into a same-named Suite.
addChildNode_foldCases(h, n, c) ==
    LET same == {i \in 1 .. Len(h[n].children) :
                    h[h[n].children[i]].type = "it" /\ h[h[n].children[i]].name = h[c].name}
    IN CASE h[c].type = "describe" ->
               IF h[n].childDescribesMap[h[c].name] # 0
               THEN [h |-> mergeWith(h, h[n].childDescribesMap[h[c].name], c),
                     ret |-> h[n].childDescribesMap[h[c].name]]
               ELSE LET h1 == [h EXCEPT ![n].childDescribesMap[h[c].name] = c]
                        h2 == addItBlocks(h1, n, h1[c].itBlocks)
                    IN [h |-> [h2 EXCEPT ![c].parent = n, ![n].children = Append(@, c)],
                        ret |-> c]
         [] h[c].type = "it" ->
               IF same # {}
               THEN [h |-> h, ret |-> h[n].children[CHOOSE i \in same : TRUE]]
               ELSE LET h1 == addItBlock(h, n, c)
                    IN [h |-> [h1 EXCEPT ![c].parent = n, ![n].children = Append(@, c)],
                        ret |-> c]
         [] OTHER ->
               [h |-> [addExpectBlock(h, n, c) EXCEPT ![c].parent = n], ret |-> c]

\* TestNode.addChildNode: the heap afterwards and the node returned.
addChildNode(h, n, c) ==
    CASE h[c].type = "describe" ->
            IF h[n].childDescribesMap[h[c].name] # 0
            THEN [h |-> mergeWith(h, h[n].childDescribesMap[h[c].name], c),
                  ret |-> h[n].childDescribesMap[h[c].name]]
            ELSE LET h1 == [h EXCEPT ![n].childDescribesMap[h[c].name] = c]
                     h2 == addItBlocks(h1, n, h1[c].itBlocks)
                 IN [h |-> [h2 EXCEPT ![c].parent = n, ![n].children = Append(@, c)],
                     ret |-> c]
      [] h[c].type = "it" ->
            LET h1 == addItBlock(h, n, c)
            IN [h |-> [h1 EXCEPT ![c].parent = n, ![n].children = Append(@, c)],
                ret |-> c]
      [] OTHER ->
            [h |-> [addExpectBlock(h, n, c) EXCEPT ![c].parent = n], ret |-> c]

\* TestNode.mergeWith's loop over other.children.
mergeChildren(h, n, xs) ==
    IF xs = <<>> THEN h
    ELSE LET x == Head(xs)
             existing == h[n].childDescribesMap[h[x].name]
             h1 == IF h[x].type = "describe" /\ existing # 0
                   THEN mergeWith(h, existing, x)
                   ELSE addChildNode(h, n, x).h
         IN mergeChildren(h1, n, Tail(xs))

TestNode_mergeWith(h, n, other) == mergeChildren(h, n, h[other].children)

\* DescribeNode.mergeWith with every incoming location appended to the stored
\* sets, without the (file, start) test.
DescribeNode_mergeWith_appendAll(h, n, other) ==
    LET h1 == TestNode_mergeWith(h, n, other)
    IN [h1 EXCEPT ![n].foundIn = @ \o h1[other].foundIn,
                  ![n].nameFoundIn = @ \o h1[other].nameFoundIn]

\* DescribeNode.mergeWith: the children, then the location sets.  The
\* foundIn / nameFoundIn getters return a copy (slice) of the stored array,
\* so mergeNodeLocations pushes onto copies that are dropped.
DescribeNode_mergeWith(h, n, other) ==
    LET h1 == TestNode_mergeWith(h, n, other)
        foundInCopy == mergeNodeLocations(h1[n].foundIn, h1[other].foundIn)
        nameFoundInCopy == mergeNodeLocations(h1[n].nameFoundIn, h1[other].nameFoundIn)
    IN h1

mergeWith(h, n, other) ==
    IF h[n].type = "describe" THEN DescribeNode_mergeWith(h, n, other)
    ELSE TestNode_mergeWith(h, n, other)

\* TestNode.addChild
addChild(h, n, type, name, file) ==
    addChildNode(Append(h, getNewParseResult(type, file, name)), n, Len(h) + 1)

RECURSIVE addFoundIns(_, _, _)
addFoundIns(h, n, locs) ==
    IF locs = <<>> THEN h
    ELSE addFoundIns([h EXCEPT ![n].foundIn = Append(@, Head(locs))], n, Tail(locs))

RECURSIVE addNameFoundIns(_, _, _)
addNameFoundIns(h, n, locs) ==
    IF locs = <<>> THEN h
    ELSE addNameFoundIns([h EXCEPT ![n].nameFoundIn = Append(@, Head(locs))], n, Tail(locs))

RECURSIVE loadAddChildNode(_, _, _)
RECURSIVE loadAddChildNodes(_, _, _)

\* The closure addChildNode of loadTestsForParseResult.
loadAddChildNode(h, pResult, parent) ==
    LET r == addChild(h, parent, pResult.type, pResult.name,
                      IF Len(pResult.locations) = 1 THEN pResult.locations[1].file ELSE "")
        child == r.ret
        h1 == IF r.h[child].type = "describe"
              THEN addNameFoundIns(addFoundIns(r.h, child, pResult.locations),
                                   child, pResult.nameLocations)
              ELSE LET hs == IF Len(pResult.locations) = 1
                             THEN [r.h EXCEPT ![child].start = pResult.locations[1].start,
                                              ![child].end = pResult.locations[1].end]
                             ELSE r.h
                   IN IF Len(pResult.nameLocations) = 1
                      THEN [hs EXCEPT ![child].nameStart = pResult.locations[1].start,
                                      ![child].nameEnd = pResult.locations[1].end]
                      ELSE hs
        h2 == loadAddChildNodes(h1, pResult.children, child)
    IN loadAddChildNodes(h2, pResult.expects, child)

loadAddChildNodes(h, pResults, parent) ==
    IF pResults = <<>> THEN h
    ELSE loadAddChildNodes(loadAddChildNode(h, Head(pResults), parent), Tail(pResults), parent)

\* TestNodeManager.loadTestsForParseResult: a new RootNode holding the nodes
\* of the root ParseResult's children.
loadTestsForParseResult(h, pChildren) ==
    LET pRoot == Len(h) + 1
        h1 == Append(h, getNewParseResult("root", "", ""))
    IN [h |-> loadAddChildNodes(h1, pChildren, pRoot), ret |-> pRoot]

\* TestNodeManager.loadFileTestNodes
RECURSIVE flattenUp(_, _)
flattenUp(h, n) ==
    IF h[n].parent # 0 THEN Append(flattenUp(h, h[n].parent), n) ELSE <<n>>

RECURSIVE pushNew(_, _)
pushNew(arr, ns) ==
    IF ns = <<>> THEN arr
    ELSE pushNew(IF Includes(arr, Head(ns)) THEN arr ELSE Append(arr, Head(ns)), Tail(ns))

NoFileTestNodes == [f \in Files |-> [known |-> FALSE, nodes |-> <<>>]]

RECURSIVE loadFileTestNodesFrom(_, _, _)
loadFileTestNodesFrom(h, its, acc) ==
    IF its = <<>> THEN acc
    ELSE LET it == Head(its)
             file == h[it].file
         IN loadFileTestNodesFrom(h, Tail(its),
                [acc EXCEPT ![file] = [known |-> TRUE,
                                       nodes |-> pushNew(@.nodes, flattenUp(h, it))]])

loadFileTestNodes(h, root) ==
    IF root # 0 THEN loadFileTestNodesFrom(h, h[root].itBlocks, NoFileTestNodes)
    ELSE NoFileTestNodes

(***************************************************************************)
(* Incremental reconciliation: remergeWith and its helpers                 *)
(***************************************************************************)
RECURSIVE flattenDown(_, _)
RECURSIVE flattenDownAll(_, _)
flattenDown(h, n) == <<n>> \o flattenDownAll(h, h[n].children)

flattenDownAll(h, ns) ==
    IF ns = <<>> THEN <<>> ELSE flattenDown(h, Head(ns)) \o flattenDownAll(h, Tail(ns))

\* TestNode.position and its override DescribeNode.position
position(h, n, filePath) ==
    IF h[n].type = "describe"
    THEN LET idx == {i \in 1 .. Len(h[n].foundIn) : h[n].foundIn[i].file = filePath}
         IN IF idx = {} THEN DefaultPosition
            ELSE h[n].foundIn[CHOOSE i \in idx : \A j \in idx : i <= j].start
    ELSE IF h[n].file = "" \/ h[n].file # filePath THEN DefaultPosition
         ELSE h[n].start

\* class NodeMap / class FileNodeMap: `files` are the keys in insertion order.
EmptyNodeMap == [thisNodes |-> <<>>, otherNodes |-> <<>>, thisItNodes |-> <<>>, otherItNodes |-> <<>>]

EmptyFileNodeMap == [files |-> <<>>, map |-> [f \in Files |-> EmptyNodeMap]]

addOtherNode(h, m, file, node) ==
    [files |-> IF Includes(m.files, file) THEN m.files ELSE Append(m.files, file),
     map |-> [m.map EXCEPT ![file].otherNodes = Append(@, node),
                           ![file].otherItNodes =
                               IF h[node].type = "it" THEN Append(@, node) ELSE @]]

addThisNode(h, m, file, node) ==
    [files |-> IF Includes(m.files, file) THEN m.files ELSE Append(m.files, file),
     map |-> [m.map EXCEPT ![file].thisNodes = Append(@, node),
                           ![file].thisItNodes =
                               IF h[node].type = "it" THEN Append(@, node) ELSE @]]

RECURSIVE addOtherFoundIns(_, _, _, _)
addOtherFoundIns(h, m, o, fis) ==
    IF fis = <<>> THEN m
    ELSE addOtherFoundIns(h, addOtherNode(h, m, Head(fis).file, o), o, Tail(fis))

RECURSIVE addOtherFlats(_, _, _)
addOtherFlats(h, m, os) ==
    IF os = <<>> THEN m
    ELSE LET o == Head(os)
             m1 == IF h[o].type = "describe" THEN addOtherFoundIns(h, m, o, h[o].foundIn)
                   ELSE IF h[o].file # "" THEN addOtherNode(h, m, h[o].file, o)
                   ELSE m
         IN addOtherFlats(h, m1, Tail(os))

RECURSIVE addThisFoundIns(_, _, _, _, _)
addThisFoundIns(h, m, files, t, fis) ==
    IF fis = <<>> THEN m
    ELSE addThisFoundIns(h,
             IF Includes(files, Head(fis).file) THEN addThisNode(h, m, Head(fis).file, t) ELSE m,
             files, t, Tail(fis))

RECURSIVE addThisFlats(_, _, _, _)
addThisFlats(h, m, files, ts) ==
    IF ts = <<>> THEN m
    ELSE LET t == Head(ts)
             m1 == IF h[t].type = "describe" THEN addThisFoundIns(h, m, files, t, h[t].foundIn)
                   ELSE IF h[t].file # "" THEN addThisNode(h, m, h[t].file, t)
                   ELSE m
         IN addThisFlats(h, m1, files, Tail(ts))

\* TestNode.getFileNodesMap
getFileNodesMap(h, n, otherNode) ==
    LET m1 == addOtherFlats(h, EmptyFileNodeMap, flattenDownAll(h, h[otherNode].children))
        files == m1.files
        thisFlats == Filter(flattenDownAll(h, h[n].children),
                            {f \in 1 .. Len(h) :
                                \E file \in SeqToSet(files) : position(h, f, file) # DefaultPosition})
    IN addThisFlats(h, m1, files, thisFlats)

removeFoundIn(h, n, file) ==
    [h EXCEPT ![n].foundIn = Filter(@, {fi \in SeqToSet(@) : fi.file # file})]

removeNameFoundIn(h, n, file) ==
    [h EXCEPT ![n].nameFoundIn = Filter(@, {fi \in SeqToSet(@) : fi.file # file})]

\* removeDeletedExistingNodes without its first loop: tests which no longer
\* exist stay where they are.
removeDeletedIts_keepAll(h, its, otherItNodes) == h

\* removeDeletedExistingNodes, first loop: existing tests which no longer exist.
RECURSIVE removeDeletedIts(_, _, _)
removeDeletedIts(h, its, otherItNodes) ==
    IF its = <<>> THEN h
    ELSE LET it == Head(its)
             h1 == IF /\ h[it].parent # 0
                      /\ ~\E oi \in SeqToSet(otherItNodes) : fqName(h, oi) = fqName(h, it)
                   THEN removeChildNode(h, h[it].parent, it)
                   ELSE h
         IN removeDeletedIts(h1, Tail(its), otherItNodes)

\* removeDeletedExistingNodes, second loop, only dropping the location
\* entries of suites which no longer exist and leaving the suites in place.
RECURSIVE removeDeletedDescribes_keepEmpty(_, _, _, _)
removeDeletedDescribes_keepEmpty(h, file, tns, otherNodes) ==
    IF tns = <<>> THEN h
    ELSE LET dNode == Head(tns)
             other == {o \in SeqToSet(otherNodes) :
                          h[o].type = h[dNode].type /\ fqName(h, o) = fqName(h, dNode)}
             h1 == IF other = {} THEN removeNameFoundIn(removeFoundIn(h, dNode, file), dNode, file)
                   ELSE h
         IN removeDeletedDescribes_keepEmpty(h1, file, Tail(tns), otherNodes)

\* removeDeletedExistingNodes, second loop: existing suites which no longer exist.
RECURSIVE removeDeletedDescribes(_, _, _, _)
removeDeletedDescribes(h, file, tns, otherNodes) ==
    IF tns = <<>> THEN h
    ELSE LET dNode == Head(tns)
             other == {o \in SeqToSet(otherNodes) :
                          h[o].type = h[dNode].type /\ fqName(h, o) = fqName(h, dNode)}
             h1 == IF other = {} THEN removeNameFoundIn(removeFoundIn(h, dNode, file), dNode, file)
                   ELSE h
             h2 == IF h1[dNode].foundIn = <<>> /\ h1[dNode].parent # 0
                   THEN removeChildNode(h1, h1[dNode].parent, dNode)
                   ELSE h1
         IN removeDeletedDescribes(h2, file, Tail(tns), otherNodes)

removeDeletedExistingNodes(h, file, map) ==
    LET h1 == removeDeletedIts(h, map.thisItNodes, map.otherItNodes)
    IN removeDeletedDescribes(h1, file,
           Filter(map.thisNodes, {tn \in 1 .. Len(h) : h[tn].type = "describe"}),
           map.otherNodes)

RECURSIVE removeDeletedForFiles(_, _, _)
removeDeletedForFiles(h, files, fileNodesMap) ==
    IF files = <<>> THEN h
    ELSE removeDeletedForFiles(
             removeDeletedExistingNodes(h, Head(files), fileNodesMap.map[Head(files)]),
             Tail(files), fileNodesMap)

\* The child of n that remergeWith pairs with otherChild, 0 when there is none.
findThisChild(h, n, otherChild) ==
    LET cs == h[n].children
        idx == IF isContainer(h, otherChild)
               THEN {i \in 1 .. Len(cs) : fqName(h, cs[i]) = fqName(h, otherChild)}
               ELSE {i \in 1 .. Len(cs) :
                        /\ h[cs[i]].file # ""
                        /\ h[otherChild].file # ""
                        /\ h[cs[i]].file = h[otherChild].file
                        /\ fqName(h, cs[i]) = fqName(h, otherChild)}
    IN IF idx = {} THEN 0 ELSE cs[CHOOSE i \in idx : \A j \in idx : i <= j]

RECURSIVE addChildNodes(_, _, _)
addChildNodes(h, n, cs) ==
    IF cs = <<>> THEN h ELSE addChildNodes(addChildNode(h, n, Head(cs)).h, n, Tail(cs))

\* DescribeNode.remergeWith's loop over otherD._foundIn
RECURSIVE remergeFoundIn(_, _, _)
remergeFoundIn(h, n, fis) ==
    IF fis = <<>> THEN h
    ELSE LET fI == Head(fis)
             idx == {i \in 1 .. Len(h[n].foundIn) : h[n].foundIn[i].file = fI.file}
             h1 == IF idx # {}
                   THEN LET i == CHOOSE i \in idx : \A j \in idx : i <= j
                        IN [h EXCEPT ![n].foundIn[i].start = fI.start,
                                     ![n].foundIn[i].end = fI.end]
                   ELSE [h EXCEPT ![n].foundIn = Append(@, fI)]
         IN remergeFoundIn(h1, n, Tail(fis))

\* ItNode.remergeExpects keeping the prior list and pushing the other side's
\* nodes behind it.
remergeExpects_keepPrior(h, n, others) == [h EXCEPT ![n].expects = @ \o others]

\* ItNode.remergeExpects: the prior list is dropped, the other side's nodes are
\* pushed as they are (addExpectBlock does not set their parent).
remergeExpects(h, n, others) == [h EXCEPT ![n].expects = others]

ItNode_remergeWith(h, n, other) ==
    IF fqName(h, n) # fqName(h, other) THEN h
    ELSE remergeExpects([h EXCEPT ![n].start = h[other].start,
                                  ![n].end = h[other].end,
                                  ![n].nameStart = h[other].nameStart,
                                  ![n].nameEnd = h[other].nameEnd],
                        n, h[other].expects)

ExpectNode_remergeWith(h, n, other) ==
    [h EXCEPT ![n].start = h[other].start,
              ![n].end = h[other].end,
              ![n].nameStart = h[other].nameStart,
              ![n].nameEnd = h[other].nameEnd]

RECURSIVE remergeWith(_, _, _)
RECURSIVE remergeChildren(_, _, _)
RECURSIVE TestNode_remergeWith(_, _, _)

\* TestNode.remergeWith's loop over other.children.
remergeChildren(h, n, otherChildren) ==
    IF otherChildren = <<>> THEN h
    ELSE LET otherChild == Head(otherChildren)
             thisChild == findThisChild(h, n, otherChild)
             h1 == IF thisChild # 0 THEN remergeWith(h, thisChild, otherChild)
                   ELSE addChildNode(h, n, otherChild).h
         IN remergeChildren(h1, n, Tail(otherChildren))

TestNode_remergeWith(h, n, other) ==
    IF h[other].children = <<>> THEN h
    ELSE IF h[n].children = <<>> THEN addChildNodes(h, n, h[other].children)
    ELSE LET fileNodesMap == getFileNodesMap(h, n, other)
             h1 == removeDeletedForFiles(h, fileNodesMap.files, fileNodesMap)
         IN remergeChildren(h1, n, h[other].children)

DescribeNode_remergeWith(h, n, other) ==
    IF fqName(h, n) # fqName(h, other) THEN h
    ELSE TestNode_remergeWith(remergeFoundIn(h, n, h[other].foundIn), n, other)

remergeWith(h, n, other) ==
    CASE h[n].type = "describe" -> DescribeNode_remergeWith(h, n, other)
      [] h[n].type = "it" -> ItNode_remergeWith(h, n, other)
      [] h[n].type = "expect" -> ExpectNode_remergeWith(h, n, other)
      [] OTHER -> TestNode_remergeWith(h, n, other)

(***************************************************************************)
(* File deletion: TestNode.removeNodesForFile                              *)
(***************************************************************************)
\* The UTF-16 code units of a name, which JavaScript's string comparison reads.
CharCodes(name) ==
    CASE name = "A" -> <<65>>
      [] name = "B" -> <<66>>
      [] name = "x" -> <<120>>
      [] name = "y" -> <<121>>
      [] name = "A:x" -> <<65, 58, 120>>
      [] OTHER -> <<>>

RECURSIVE fqCodes(_, _)
fqCodes(h, n) ==
    IF h[n].name = "" THEN <<>>
    ELSE LET parentCodes == IF h[n].parent # 0 THEN fqCodes(h, h[n].parent) ELSE <<>>
         IN (IF parentCodes # <<>> THEN Append(parentCodes, 58) ELSE <<>>) \o CharCodes(h[n].name)

\* a > b for strings given by their code units
RECURSIVE StrGreater(_, _)
StrGreater(a, b) ==
    IF a = <<>> THEN FALSE
    ELSE IF b = <<>> THEN TRUE
    ELSE IF Head(a) # Head(b) THEN Head(a) > Head(b)
    ELSE StrGreater(Tail(a), Tail(b))

\* The comparator's order (descending fqName), equal names kept in their order.
RECURSIVE insertSorted(_, _, _)
insertSorted(h, sorted, n) ==
    IF sorted = <<>> THEN <<n>>
    ELSE IF StrGreater(fqCodes(h, n), fqCodes(h, Head(sorted)))
         THEN <<n>> \o sorted
         ELSE <<Head(sorted)>> \o insertSorted(h, Tail(sorted), n)

RECURSIVE sortByFqNameDesc(_, _, _)
sortByFqNameDesc(h, ns, sorted) ==
    IF ns = <<>> THEN sorted
    ELSE sortByFqNameDesc(h, Tail(ns), insertSorted(h, sorted, Head(ns)))

RECURSIVE removeNodes(_, _, _)
removeNodes(h, file, ns) ==
    IF ns = <<>> THEN h
    ELSE LET n == Head(ns)
             h1 == IF h[n].type = "it" /\ h[n].parent # 0
                   THEN removeChildNode(h, h[n].parent, n)
                   ELSE LET hd == removeNameFoundIn(removeFoundIn(h, n, file), n, file)
                        IN IF hd[n].foundIn = <<>> /\ hd[n].parent # 0
                           THEN removeChildNode(hd, hd[n].parent, n)
                           ELSE hd
         IN removeNodes(h1, file, Tail(ns))

removeNodesForFile(h, n, file) ==
    IF h[n].children = <<>> THEN h
    ELSE LET nodes == Filter(flattenDownAll(h, h[n].children),
                             {c \in 1 .. Len(h) : position(h, c, file) # DefaultPosition})
         IN removeNodes(h, file, sortByFqNameDesc(h, nodes, <<>>))

(***************************************************************************)
(* Result correlation: TestNodeManager.ParseTestResults                    *)
(***************************************************************************)
RECURSIVE join(_)
join(titles) ==
    IF titles = <<>> THEN ""
    ELSE IF Len(titles) = 1 THEN Head(titles)
    ELSE Head(titles) \o ":" \o join(Tail(titles))

\* The upward walk of ParseTestResults stopping after the Case's parent.
assignContainerResults_parentOnly(h, parent) ==
    IF parent # 0 /\ h[parent].testResult = ""
    THEN [h EXCEPT ![parent].testResult = "container"]
    ELSE h

\* A node's testResult is "" (none), a leaf status (class TestResult) or
\* "container" (class ContainerTestResult, whose status is computed on demand).
RECURSIVE assignContainerResults(_, _)
assignContainerResults(h, parent) ==
    IF parent # 0 /\ h[parent].testResult = ""
    THEN assignContainerResults([h EXCEPT ![parent].testResult = "container"], h[parent].parent)
    ELSE h

\* ContainerTestResult.status with a mixed, non-failing set of children
\* reported as skipped.
RECURSIVE ContainerTestResult_status_mixedSkipped(_, _)
ContainerTestResult_status_mixedSkipped(h, n) ==
    LET children == h[n].children
        st(c) == IF h[c].testResult = "container"
                 THEN ContainerTestResult_status_mixedSkipped(h, c)
                 ELSE h[c].testResult
    IN IF children = <<>> THEN "pending"
       ELSE IF \E i \in 1 .. Len(children) : st(children[i]) = "failed" THEN "failed"
       ELSE IF \A i \in 1 .. Len(children) : st(children[i]) = "passed" THEN "passed"
       ELSE IF \A i \in 1 .. Len(children) : st(children[i]) = "todo" THEN "todo"
       ELSE "skipped"

\* ContainerTestResult.status: the status of a container's result, computed on
\* demand from the results its direct children hold ("" where a child has none).
RECURSIVE ContainerTestResult_status(_, _)
RECURSIVE firstUnanimous(_, _, _)
\* The loop over statii: the first status every child's result has.
firstUnanimous(h, children, statii) ==
    IF statii = <<>> THEN ""
    ELSE IF \A i \in 1 .. Len(children) :
                /\ h[children[i]].testResult # ""
                /\ (IF h[children[i]].testResult = "container"
                    THEN ContainerTestResult_status(h, children[i])
                    ELSE h[children[i]].testResult) = Head(statii)
         THEN Head(statii)
         ELSE firstUnanimous(h, children, Tail(statii))

ContainerTestResult_status(h, n) ==
    LET children == h[n].children
    IN IF Len(children) = 0 THEN "pending"
       ELSE IF \E i \in 1 .. Len(children) :
                   /\ h[children[i]].testResult # ""
                   /\ (IF h[children[i]].testResult = "container"
                       THEN ContainerTestResult_status(h, children[i])
                       ELSE h[children[i]].testResult) = "failed"
            THEN "failed"
       ELSE LET retVal == firstUnanimous(h, children, <<"passed", "skipped", "todo">>)
            IN IF retVal # "" THEN retVal ELSE "pending"

\* node.testResult.status: "" where the node holds no result.
testResultStatus(h, n) ==
    IF h[n].testResult = "container" THEN ContainerTestResult_status(h, n)
    ELSE h[n].testResult

\* The correlation loop assigning every matched entry, a pending one too.
RECURSIVE correlate_alwaysAssign(_, _, _)
correlate_alwaysAssign(h, its, assertionResults) ==
    IF assertionResults = <<>> THEN h
    ELSE LET a == Head(assertionResults)
             aFQ == join(a.ancestorTitles)
             fq == (IF aFQ # "" THEN aFQ \o ":" ELSE "") \o a.title
             idx == {i \in 1 .. Len(its) : fqName(h, its[i]) = fq}
             node == IF idx = {} THEN 0 ELSE its[CHOOSE i \in idx : \A j \in idx : i <= j]
             h1 == IF node # 0
                   THEN assignContainerResults(
                            [h EXCEPT ![node].testResult = a.status, ![node].running = FALSE],
                            h[node].parent)
                   ELSE h
         IN correlate_alwaysAssign(h1, its, Tail(assertionResults))

\* The correlation loop giving up at the first entry that matches no Case.
RECURSIVE correlate_stopAtUnmatched(_, _, _)
correlate_stopAtUnmatched(h, its, assertionResults) ==
    IF assertionResults = <<>> THEN h
    ELSE LET a == Head(assertionResults)
             aFQ == join(a.ancestorTitles)
             fq == (IF aFQ # "" THEN aFQ \o ":" ELSE "") \o a.title
             idx == {i \in 1 .. Len(its) : fqName(h, its[i]) = fq}
             node == IF idx = {} THEN 0 ELSE its[CHOOSE i \in idx : \A j \in idx : i <= j]
             h1 == IF node # 0 /\ (h[node].testResult = "" \/ a.status # "pending")
                   THEN assignContainerResults(
                            [h EXCEPT ![node].testResult = a.status, ![node].running = FALSE],
                            h[node].parent)
                   ELSE h
         IN IF node = 0 THEN h ELSE correlate_stopAtUnmatched(h1, its, Tail(assertionResults))

RECURSIVE correlate(_, _, _)
correlate(h, its, assertionResults) ==
    IF assertionResults = <<>> THEN h
    ELSE LET a == Head(assertionResults)
             aFQ == join(a.ancestorTitles)
             fq == (IF aFQ # "" THEN aFQ \o ":" ELSE "") \o a.title
             idx == {i \in 1 .. Len(its) : fqName(h, its[i]) = fq}
             node == IF idx = {} THEN 0 ELSE its[CHOOSE i \in idx : \A j \in idx : i <= j]
             h1 == IF node # 0 /\ (h[node].testResult = "" \/ a.status # "pending")
                   THEN assignContainerResults(
                            [h EXCEPT ![node].testResult = a.status, ![node].running = FALSE],
                            h[node].parent)
                   ELSE h
         IN correlate(h1, its, Tail(assertionResults))

AssertionResult(ancestors, title, status) ==
    [ancestorTitles |-> ancestors, title |-> title, status |-> status]

\* The run reports of the model, each the assertionResults of its testResults.
Reports ==
    { << AssertionResult(<<"A">>, "x", "passed") >>,
      << AssertionResult(<<"A">>, "x", "pending") >>,
      << AssertionResult(<<"A">>, "y", "failed"), AssertionResult(<<"B">>, "y", "passed") >> }

(***************************************************************************)
(* Full discovery: TestNodeManager.LoadTests                               *)
(***************************************************************************)
\* parseFiles: the declarations of a project's files under one root ParseResult.
RECURSIVE parseFiles(_, _)
parseFiles(files, texts) ==
    IF files = <<>> THEN <<>>
    ELSE Text(Head(files), texts[Head(files)]) \o parseFiles(Tail(files), texts)

RECURSIVE loadProjects(_, _, _, _)
loadProjects(h, root, dirs, texts) ==
    IF dirs = <<>> THEN h
    ELSE LET r == loadTestsForParseResult(h, parseFiles(Head(dirs), texts))
         IN loadProjects(mergeWith(r.h, root, r.ret), root, Tail(dirs), texts)

NoTexts == [f \in Files |-> 0]

\* LoadTests where the new root is installed before the files are parsed.
loadTests_installFirst(h, root, ftn, dirs, texts) ==
    LET newRoot == Len(h) + 1
        h1 == Append(h, getNewParseResult("root", "", ""))
    IN IF \E f \in Files : texts[f] \in MalformedTexts
       THEN [heap |-> h1, rootNode |-> newRoot, fileTestNodes |-> NoFileTestNodes,
             fired |-> FALSE, raised |-> TRUE]
       ELSE LET h2 == loadProjects(h1, newRoot, dirs, texts)
            IN [heap |-> h2, rootNode |-> newRoot,
                fileTestNodes |-> loadFileTestNodes(h2, newRoot),
                fired |-> TRUE, raised |-> FALSE]

\* The body of TestNodeManager.LoadTests on tree h with root `root` and file
\* index ftn.  On a file that does not parse babylonParse throws, parseFiles
\* and discoverTests reject, and the await in LoadTests throws before a tree is
\* built or installed and before onTestsUpdated is fired.
loadTests(h, root, ftn, dirs, texts) ==
    IF \E f \in Files : texts[f] \in MalformedTexts
    THEN [heap |-> h, rootNode |-> root, fileTestNodes |-> ftn,
          fired |-> FALSE, raised |-> TRUE]
    ELSE LET newRoot == Len(h) + 1
             h1 == Append(h, getNewParseResult("root", "", ""))
             h2 == loadProjects(h1, newRoot, dirs, texts)
         IN [heap |-> h2, rootNode |-> newRoot,
             fileTestNodes |-> loadFileTestNodes(h2, newRoot),
             fired |-> TRUE, raised |-> FALSE]

\* TestNodeManager.LoadTests.
LoadTests(texts) ==
    /\ nOps < MaxOps
    /\ \E r \in {loadTests(heap, rootNode, fileTestNodes, jestDirs, texts)} :
          /\ heap' = r.heap
          /\ rootNode' = r.rootNode
          /\ fileTestNodes' = r.fileTestNodes
          /\ op' = [kind |-> "LoadTests", file |-> "", texts |-> texts,
                    raised |-> r.raised, fired |-> r.fired]
    /\ nOps' = nOps + 1
    /\ UNCHANGED <<jestDirs, timing, runs, coverage, stack, async>>

\* The watchers are registered by the first LoadTests (addWatchers).
watching == rootNode # 0

\* TestNodeManager.handleFileCreated with the text discoverTestsForFile reads.
\* getJestTestFile finds a file for every path under a project of jestDirs.
HandleFileCreated(f, t) ==
    /\ nOps < MaxOps
    /\ watching
    /\ LET r == loadTestsForParseResult(heap, Text(f, t))
       IN IF rootNode # 0
          THEN heap' = mergeWith(r.h, rootNode, r.ret) /\ rootNode' = rootNode
          ELSE heap' = r.h /\ rootNode' = r.ret
    /\ fileTestNodes' = IF fileTestNodes[f].known THEN fileTestNodes
                        ELSE [fileTestNodes EXCEPT ![f] = [known |-> TRUE, nodes |-> <<>>]]
    /\ op' = [kind |-> "FileCreated", file |-> f, texts |-> [NoTexts EXCEPT ![f] = t], raised |-> FALSE]
    /\ nOps' = nOps + 1
    /\ UNCHANGED <<jestDirs, timing, runs, coverage, stack, async>>

\* onDidChangeTextDocument and the debounced parseChangedDocument.  On a
\* text that does not parse rediscoverTests throws out of the timer callback
\* before anything is touched.
ParseChangedDocument(f, t) ==
    /\ nOps < MaxOps
    /\ watching
    /\ fileTestNodes[f].known
    /\ IF t \in MalformedTexts
       THEN /\ UNCHANGED <<heap, fileTestNodes>>
            /\ op' = [kind |-> "Changed", file |-> f,
                      texts |-> [NoTexts EXCEPT ![f] = t], raised |-> TRUE]
       ELSE /\ LET r == loadTestsForParseResult(heap, Text(f, t))
                   h1 == IF rootNode # 0 THEN remergeWith(r.h, rootNode, r.ret) ELSE r.h
               IN /\ heap' = h1
                  /\ fileTestNodes' = loadFileTestNodes(h1, rootNode)
            /\ op' = [kind |-> "Changed", file |-> f,
                      texts |-> [NoTexts EXCEPT ![f] = t], raised |-> FALSE]
    /\ nOps' = nOps + 1
    /\ UNCHANGED <<rootNode, jestDirs, timing, runs, coverage, stack, async>>

\* TestNodeManager.handleFileDeleted
HandleFileDeleted(f) ==
    /\ nOps < MaxOps
    /\ watching
    /\ fileTestNodes[f].known /\ rootNode # 0
    /\ heap' = removeNodesForFile(heap, rootNode, f)
    /\ fileTestNodes' = [fileTestNodes EXCEPT ![f] = [known |-> FALSE, nodes |-> <<>>]]
    /\ op' = [kind |-> "FileDeleted", file |-> f, texts |-> NoTexts, raised |-> FALSE]
    /\ nOps' = nOps + 1
    /\ UNCHANGED <<rootNode, jestDirs, timing, runs, coverage, stack, async>>

\* TestNodeManager.ParseTestResults
ParseTestResults(report) ==
    /\ nOps < MaxOps
    /\ rootNode # 0
    /\ heap[rootNode].itBlocks # <<>>
    /\ heap' = correlate(heap, heap[rootNode].itBlocks, report)
    /\ op' = [kind |-> "Results", file |-> "", texts |-> NoTexts, raised |-> FALSE,
              report |-> report]
    /\ nOps' = nOps + 1
    /\ UNCHANGED <<rootNode, fileTestNodes, jestDirs, timing, runs, coverage, stack, async>>

\* new Stack().
NewStack ==
    /\ arry = <<>>
    /\ offset = -1
    /\ lifo = <<>>

\* No file exists, no discovery and no file-created parse is in flight.
NoAsync ==
    /\ disk = NoTexts
    /\ discovery = [stage |-> "idle", texts |-> NoTexts]
    /\ creating = {}
    /\ raced = {}

\* CoverageMapManager._coverageMap while it is undefined.
NoCoverageMap == [file \in {} |-> 0]

\* No coverage has been processed.
NoCoverage ==
    /\ coverageMap = NoCoverageMap
    /\ onCoverageUpdated = 0

\* No timer is set, no document has been edited, nothing has been notified.
NoTiming ==
    /\ now = 0
    /\ timers = {}
    /\ timeoutId = [fn \in {"parseChangedDocument", "fireTestsUpdating"} |-> 0]
    /\ docText = NoTexts
    /\ log = <<>>

Init ==
    /\ heap = <<>>
    /\ rootNode = 0
    /\ fileTestNodes = NoFileTestNodes
    /\ jestDirs \in Layouts
    /\ op = [kind |-> "init", file |-> "", texts |-> NoTexts, raised |-> FALSE]
    /\ nOps = 0
    /\ NoTiming
    /\ runs = <<>>
    /\ NoCoverage
    /\ NewStack
    /\ NoAsync

Next ==
    \/ \E texts \in [Files -> DiscoverTexts \cup MalformedTexts] : LoadTests(texts)
    \/ \E f \in Files, t \in CreatedTexts : HandleFileCreated(f, t)
    \/ \E f \in Files, t \in ChangedTexts : ParseChangedDocument(f, t)
    \/ \E f \in Files : HandleFileDeleted(f)
    \/ \E report \in Reports : ParseTestResults(report)

Spec == Init /\ [][Next]_vars

(***************************************************************************)
(* Edits in time: onDidChangeTextDocument, the two debounced procedures    *)
(* and the timers of the runtime.  Times are milliseconds.                 *)
(***************************************************************************)
\* The wait of the debounced parseChangedDocument (trailing edge).
ParseWait == 2500

\* The wait of the debounced fireTestsUpdating (leading edge).
UpdatingWait == 2000

\* The clock advances in steps of half a second, up to MaxTime.
TimeStep == UpdatingWait \div 4

MaxTime == 5000

\* Number of edits in one behaviour.
MaxEdits == 3

\* What an edit leaves in a document.
EditTexts == {2, 8}

\* What a full discovery finds on disk while documents are being edited.
RediscoverTexts == {1}

\* Number of full discoveries in one behaviour of edits in time.
MaxLoads == 2

Edits(l) == {i \in 1 .. Len(l) : l[i].kind = "edit"}

\* A call of a debounced procedure that does not clear the timer it replaces.
debounce_noClear(fn, wait, isImmediate, id, args, ts, ids, root) ==
    [timers |-> ts \cup {[fn |-> fn, id |-> id, due |-> now + wait, args |-> args,
                         root |-> root]},
     timeoutId |-> [ids EXCEPT ![fn] = id],
     callNow |-> isImmediate /\ ids[fn] = 0]

\* A call of the procedure debounce(func, wait, isImmediate) returns: the
\* pending timer of the procedure is cleared, a new one is set, and func is
\* called now on the leading edge.  `root` remembers the tree installed when
\* the timer was set.
debounce(fn, wait, isImmediate, id, args, ts, ids, root) ==
    [timers |-> {t \in ts : ~(t.fn = fn /\ t.id = ids[fn])}
                    \cup {[fn |-> fn, id |-> id, due |-> now + wait, args |-> args,
                           root |-> root]},
     timeoutId |-> [ids EXCEPT ![fn] = id],
     callNow |-> isImmediate /\ ids[fn] = 0]

LogEntry(kind, f, id, t, raised) ==
    [kind |-> kind, file |-> f, id |-> id, text |-> t, time |-> now, raised |-> raised]

\* TestNodeManager.onDidChangeTextDocument for an edit that leaves text t in
\* the document of file f.
OnDidChangeTextDocument(f, t) ==
    /\ Cardinality(Edits(log)) < MaxEdits
    /\ watching
    /\ fileTestNodes[f].known
    /\ LET id == Cardinality(Edits(log)) + 1
           u == debounce("fireTestsUpdating", UpdatingWait, TRUE, id, f,
                         timers, timeoutId, rootNode)
           p == debounce("parseChangedDocument", ParseWait, FALSE, id, f,
                         u.timers, u.timeoutId, rootNode)
       IN /\ timers' = p.timers
          /\ timeoutId' = p.timeoutId
          /\ log' = log \o <<LogEntry("edit", f, id, t, FALSE)>>
                        \o (IF u.callNow THEN <<LogEntry("updating", f, id, t, FALSE)>>
                            ELSE <<>>)
    /\ docText' = [docText EXCEPT ![f] = t]
    /\ op' = [kind |-> "Edit", file |-> f, texts |-> [NoTexts EXCEPT ![f] = t],
              raised |-> FALSE]
    /\ UNCHANGED <<heap, rootNode, fileTestNodes, jestDirs, nOps, now, runs, coverage, stack, async>>

\* The timer of fireTestsUpdating expires: `later` forgets the handle.
UpdatingTimerFires(tm) ==
    /\ tm \in timers /\ tm.fn = "fireTestsUpdating"
    /\ now >= tm.due
    /\ timers' = timers \ {tm}
    /\ timeoutId' = [timeoutId EXCEPT !["fireTestsUpdating"] = 0]
    /\ op' = [kind |-> "UpdatingExpired", file |-> tm.args, texts |-> NoTexts,
              raised |-> FALSE]
    /\ UNCHANGED <<heap, rootNode, fileTestNodes, jestDirs, nOps, now, docText, log, runs, coverage, stack, async>>

\* The timer of parseChangedDocument expires: `later` forgets the handle and
\* runs the reconciliation of the document it was set for, with the text the
\* document holds now, against the tree installed now.
ParseTimerFires(tm) ==
    /\ tm \in timers /\ tm.fn = "parseChangedDocument"
    /\ now >= tm.due
    /\ timers' = timers \ {tm}
    /\ timeoutId' = [timeoutId EXCEPT !["parseChangedDocument"] = 0]
    /\ LET f == tm.args
           t == docText[f]
       IN IF t \in MalformedTexts
          THEN /\ UNCHANGED <<heap, fileTestNodes>>
               /\ op' = [kind |-> "Changed", file |-> f,
                         texts |-> [NoTexts EXCEPT ![f] = t], raised |-> TRUE,
                         stale |-> tm.root # rootNode]
               /\ log' = Append(log, LogEntry("reconciled", f, tm.id, t, TRUE))
          ELSE /\ LET r == loadTestsForParseResult(heap, Text(f, t))
                      h1 == IF rootNode # 0 THEN remergeWith(r.h, rootNode, r.ret) ELSE r.h
                  IN /\ heap' = h1
                     /\ fileTestNodes' = loadFileTestNodes(h1, rootNode)
               /\ op' = [kind |-> "Changed", file |-> f,
                         texts |-> [NoTexts EXCEPT ![f] = t], raised |-> FALSE,
                         stale |-> tm.root # rootNode]
               /\ log' = Append(log, LogEntry("reconciled", f, tm.id, t, FALSE))
    /\ UNCHANGED <<rootNode, jestDirs, nOps, now, docText, runs, coverage, stack, async>>

\* Time passes while no timer is due: the runtime runs a due timer before
\* anything later happens.
Tick ==
    /\ now < MaxTime
    /\ \A tm \in timers : now < tm.due
    /\ now' = now + TimeStep
    /\ op' = [kind |-> "Tick", file |-> "", texts |-> NoTexts, raised |-> FALSE]
    /\ UNCHANGED <<heap, rootNode, fileTestNodes, jestDirs, nOps, runs, timers, timeoutId,
                   docText, log, coverage, stack, async>>

TimedNext ==
    \/ \E texts \in [Files -> RediscoverTexts] : nOps < MaxLoads /\ LoadTests(texts)
    \/ \E f \in Files, t \in EditTexts : OnDidChangeTextDocument(f, t)
    \/ \E tm \in timers : UpdatingTimerFires(tm)
    \/ \E tm \in timers : ParseTimerFires(tm)
    \/ Tick

\* One project holds both files.
TimedInit == Init /\ Len(jestDirs) = 1

SpecTimed == TimedInit /\ [][TimedNext]_vars

(***************************************************************************)
(* Vocabulary of the properties                                            *)
(***************************************************************************)
\* The fresh parse a reconciliation works from; no nodes for a text that
\* does not parse.
FreshParse(f, t) == IF t \in MalformedTexts \/ t = 0 THEN <<>> ELSE Text(f, t)

\* The file and the fresh parse of the reconciliation recorded in o.
ChangedFile(o) == o.file

ChangedParse(o) == FreshParse(o.file, o.texts[o.file])

\* The nodes reachable from n through child lists, n included.
Reachable(h, n) == SeqToSet(flattenDown(h, n))

InTree(h, root) == IF root = 0 THEN {} ELSE Reachable(h, root)

Cases(h, ns) == {c \in ns : h[c].type = "it"}

Suites(h, ns) == {c \in ns : h[c].type = "describe"}

FoundInFiles(h, n) == {h[n].foundIn[i].file : i \in 1 .. Len(h[n].foundIn)}

NameFoundInFiles(h, n) == {h[n].nameFoundIn[i].file : i \in 1 .. Len(h[n].nameFoundIn)}

\* C1: after every completed operation, the case rollup (itBlocks) of every
\* container reachable from the root lists exactly the Case nodes reachable
\* from that container through child lists.
C1_RollupExact ==
    \A c \in InTree(heap, rootNode) :
        isContainer(heap, c) =>
            SeqToSet(heap[c].itBlocks) = Cases(heap, Reachable(heap, c))

\* The fully-qualified names a parse declares, by node type.
RECURSIVE DeclaredNames(_, _, _)
DeclaredNames(pResults, prefix, type) ==
    UNION { LET p == pResults[i]
                fq == (IF prefix # "" THEN prefix \o ":" ELSE "") \o p.name
            IN (IF p.type = type THEN {fq} ELSE {}) \cup DeclaredNames(p.children, fq, type)
            : i \in 1 .. Len(pResults) }

\* What the claims call a node's name, locations, assertion list and result.
SameNode(h1, h2, n) ==
    /\ h2[n].parent = h1[n].parent
    /\ h2[n].name = h1[n].name
    /\ h2[n].file = h1[n].file
    /\ h2[n].start = h1[n].start /\ h2[n].end = h1[n].end
    /\ h2[n].nameStart = h1[n].nameStart /\ h2[n].nameEnd = h1[n].nameEnd
    /\ h2[n].foundIn = h1[n].foundIn /\ h2[n].nameFoundIn = h1[n].nameFoundIn
    /\ h2[n].expects = h1[n].expects
    /\ h2[n].testResult = h1[n].testResult

\* The nodes a reconciliation of file f against the parse `fresh` has no
\* business with: Cases of other files, and Suites with no location in f
\* that the parse does not declare.
Unaffected(h, root, f, fresh) ==
    {n \in InTree(h, root) :
        \/ h[n].type = "it" /\ h[n].file # f
        \/ /\ h[n].type = "describe"
           /\ f \notin FoundInFiles(h, n) \cup NameFoundInFiles(h, n)
           /\ fqName(h, n) \notin DeclaredNames(fresh, "", "describe")}

\* C2: reconciling a fresh parse of file F leaves every Case of another file,
\* and every Suite without a location in F that the parse does not declare,
\* the same node, reachable, with the same parent, name, locations,
\* assertions and result.
C2_UnaffectedKept ==
    [][op'.kind = "Changed" =>
          \A n \in Unaffected(heap, rootNode, ChangedFile(op'), ChangedParse(op')) :
              /\ n \in InTree(heap', rootNode')
              /\ SameNode(heap, heap', n)]_vars

\* The block ranges <<start, end>> a parse declares for Cases named fq.
RECURSIVE DeclaredRanges(_, _, _)
DeclaredRanges(pResults, prefix, fq) ==
    UNION { LET p == pResults[i]
                name == (IF prefix # "" THEN prefix \o ":" ELSE "") \o p.name
            IN (IF p.type = "it" /\ name = fq
                THEN {<<p.locations[1].start, p.locations[1].end>>} ELSE {})
               \cup DeclaredRanges(p.children, name, fq)
            : i \in 1 .. Len(pResults) }

\* The Cases of file f in the tree whose name the parse `fresh` still declares.
SurvivingCases(h, root, f, fresh) ==
    {n \in Cases(h, InTree(h, root)) :
        h[n].file = f /\ fqName(h, n) \in DeclaredNames(fresh, "", "it")}

\* C3: reconciling file F keeps every Case of F whose fully-qualified name the
\* fresh parse still declares: the same node, still in the tree, with its run
\* result, and with the freshly parsed range of that name; a Case of that
\* name owned by another file keeps its range.
C3_SurvivorUpdated ==
    [][op'.kind = "Changed" =>
          LET f == ChangedFile(op')
              fresh == ChangedParse(op')
          IN /\ \A n \in SurvivingCases(heap, rootNode, f, fresh) :
                    /\ n \in InTree(heap', rootNode')
                    /\ heap'[n].testResult = heap[n].testResult
                    /\ <<heap'[n].start, heap'[n].end>> \in DeclaredRanges(fresh, "", fqName(heap, n))
             /\ \A n \in Cases(heap, InTree(heap, rootNode)) :
                    (heap[n].file # f /\ fqName(heap, n) \in DeclaredNames(fresh, "", "it"))
                        => <<heap'[n].start, heap'[n].end>> = <<heap[n].start, heap[n].end>>]_vars

\* C4: when the fresh parse of a changed known file yields no nodes (nothing
\* declared, or the text does not parse), the reconciliation raises no error
\* and leaves no Case of that file in the tree and no Suite with a location
\* in that file.
C4_EmptyParseClears ==
    (op.kind = "Changed" /\ ChangedParse(op) = <<>>) =>
        /\ ~op.raised
        /\ \A n \in InTree(heap, rootNode) :
              /\ heap[n].type = "it" => heap[n].file # op.file
              /\ heap[n].type = "describe" =>
                    op.file \notin FoundInFiles(heap, n) \cup NameFoundInFiles(heap, n)

\* The fully-qualified names of the Cases a parse declares inside the Suite
\* named suiteFq (at any depth).
RECURSIVE DeclaredCasesIn(_, _, _, _)
DeclaredCasesIn(pResults, prefix, suiteFq, inside) ==
    UNION { LET p == pResults[i]
                fq == (IF prefix # "" THEN prefix \o ":" ELSE "") \o p.name
            IN (IF p.type = "it" /\ inside THEN {fq} ELSE {})
               \cup DeclaredCasesIn(p.children, fq, suiteFq,
                                    inside \/ (p.type = "describe" /\ fq = suiteFq))
            : i \in 1 .. Len(pResults) }

\* The Suites of the tree declared in file f only whose single child is a Case.
SingleCaseSuites(h, root, f) ==
    {s \in Suites(h, InTree(h, root)) :
        /\ FoundInFiles(h, s) = {f}
        /\ Len(h[s].children) = 1
        /\ h[h[s].children[1]].type = "it"
        /\ h[h[s].children[1]].file = f}

\* C5: a Suite declared in one file only and holding one Case is not in the
\* tree after reconciling an edit of that file that removes the Case (the
\* fresh parse declares no Case inside the Suite).
C5_EmptiedSuitePruned ==
    [][op'.kind = "Changed" =>
          \A s \in SingleCaseSuites(heap, rootNode, ChangedFile(op')) :
              DeclaredCasesIn(ChangedParse(op'), "", fqName(heap, s), FALSE) = {}
                  => s \notin InTree(heap', rootNode')]_vars

\* The entries of a location list for files other than f, in order.
OtherFileEntries(locs, f) == Filter(locs, {fi \in SeqToSet(locs) : fi.file # f})

\* The Suites of the tree with a location in file f and in another file.
SharedSuites(h, root, f) ==
    {s \in Suites(h, InTree(h, root)) :
        f \in FoundInFiles(h, s) /\ FoundInFiles(h, s) # {f}}

\* C6: a Suite declared in F1 and in another file F2, after reconciling an
\* edit of F1 that no longer declares it: it is the same node in the tree,
\* its location sets hold no entry for F1 and their entries for the other
\* files as before, and its Cases of the other files are still its children.
C6_SharedSuiteKept ==
    [][op'.kind = "Changed" =>
          LET f == ChangedFile(op')
          IN \A s \in SharedSuites(heap, rootNode, f) :
                 fqName(heap, s) \notin DeclaredNames(ChangedParse(op'), "", "describe") =>
                     /\ s \in InTree(heap', rootNode')
                     /\ f \notin FoundInFiles(heap', s) \cup NameFoundInFiles(heap', s)
                     /\ heap'[s].foundIn = OtherFileEntries(heap[s].foundIn, f)
                     /\ heap'[s].nameFoundIn = OtherFileEntries(heap[s].nameFoundIn, f)
                     /\ \A i \in 1 .. Len(heap[s].children) :
                            LET c == heap[s].children[i]
                            IN (heap[c].type = "it" /\ heap[c].file # f)
                                   => Includes(heap'[s].children, c)]_vars

\* The Suite declarations of a parse: <<fully-qualified name, block location,
\* name location>>.
RECURSIVE DeclaredSuites(_, _)
DeclaredSuites(pResults, prefix) ==
    UNION { LET p == pResults[i]
                fq == (IF prefix # "" THEN prefix \o ":" ELSE "") \o p.name
            IN (IF p.type = "describe"
                THEN {<<fq, p.locations[1], p.nameLocations[1]>>} ELSE {})
               \cup DeclaredSuites(p.children, fq)
            : i \in 1 .. Len(pResults) }

HasEntry(locs, loc) ==
    \E i \in 1 .. Len(locs) : locs[i].file = loc.file /\ locs[i].start = loc.start

NoDuplicateEntries(locs) ==
    \A i, j \in 1 .. Len(locs) :
        (locs[i].file = locs[j].file /\ locs[i].start = locs[j].start) => i = j

\* The files an operation parsed and merged: all of them for a full
\* discovery, the created file for a file-created merge.
MergedFiles(o) ==
    IF o.kind \in {"LoadTests", "FileCreated"} /\ ~o.raised
    THEN {f \in Files : o.texts[f] # 0}
    ELSE {}

\* C7: after a full discovery or a file-created merge, every Suite of the
\* tree holds, for each declaration of its name in a merged file, that
\* declaration's foundIn and nameFoundIn entry, and no location set holds
\* two entries with the same (file, start).
C7_MergedLocations ==
    \A s \in Suites(heap, InTree(heap, rootNode)) :
        /\ \A f \in MergedFiles(op) :
              \A d \in DeclaredSuites(FreshParse(f, op.texts[f]), "") :
                  d[1] = fqName(heap, s) =>
                      HasEntry(heap[s].foundIn, d[2]) /\ HasEntry(heap[s].nameFoundIn, d[3])
        /\ MergedFiles(op) # {} =>
              NoDuplicateEntries(heap[s].foundIn) /\ NoDuplicateEntries(heap[s].nameFoundIn)

\* The Case declarations of a parse: <<fully-qualified name, block start>>.
RECURSIVE DeclaredCases(_, _)
DeclaredCases(pResults, prefix) ==
    UNION { LET p == pResults[i]
                fq == (IF prefix # "" THEN prefix \o ":" ELSE "") \o p.name
            IN (IF p.type = "it" THEN {<<fq, p.locations[1].start>>} ELSE {})
               \cup DeclaredCases(p.children, fq)
            : i \in 1 .. Len(pResults) }

\* The number of Case declarations of a parse.
RECURSIVE NumCases(_)
NumCases(pResults) ==
    IF pResults = <<>> THEN 0
    ELSE (IF Head(pResults).type = "it" THEN 1 ELSE 0)
         + NumCases(Head(pResults).children) + NumCases(Tail(pResults))

\* The tree already holds what file f's parse declares: each Suite with its
\* location entries, each Case with its owning file and position.
AlreadyMerged(h, root, f, parse) ==
    /\ parse # <<>>
    /\ \A d \in DeclaredSuites(parse, "") :
           \E s \in Suites(h, InTree(h, root)) :
               /\ fqName(h, s) = d[1]
               /\ HasEntry(h[s].foundIn, d[2]) /\ HasEntry(h[s].nameFoundIn, d[3])
    /\ \A d \in DeclaredCases(parse, "") :
           \E c \in Cases(h, InTree(h, root)) :
               fqName(h, c) = d[1] /\ h[c].file = f /\ h[c].start = d[2]

CreatedParse(o) == FreshParse(o.file, o.texts[o.file])

\* C8 as stated: merging a tree whose content the global tree already holds
\* changes nothing: no node is added, no rollup and no location set gains
\* an entry.
C8_MergeIdempotent ==
    [][(op'.kind = "FileCreated" /\ AlreadyMerged(heap, rootNode, op'.file, CreatedParse(op'))) =>
          /\ InTree(heap', rootNode') = InTree(heap, rootNode)
          /\ \A n \in InTree(heap, rootNode) :
                 /\ heap'[n].itBlocks = heap[n].itBlocks
                 /\ heap'[n].foundIn = heap[n].foundIn
                 /\ heap'[n].nameFoundIn = heap[n].nameFoundIn]_vars

\* C8 amended: merging a tree whose content the global tree already holds adds
\* no Suite and no location entry and removes nothing; it adds one new Case
\* node per incoming Case declaration, and the root's rollup gains exactly
\* those Cases.
C8_MergeAddsOnlyCases ==
    [][(op'.kind = "FileCreated" /\ AlreadyMerged(heap, rootNode, op'.file, CreatedParse(op'))) =>
          LET before == InTree(heap, rootNode)
              after == InTree(heap', rootNode')
              added == after \ before
          IN /\ before \subseteq after
             /\ \A n \in added : heap'[n].type = "it" /\ heap'[n].file = op'.file
             /\ Cardinality(added) = NumCases(CreatedParse(op'))
             /\ SeqToSet(heap'[rootNode'].itBlocks) = SeqToSet(heap[rootNode].itBlocks) \cup added
             /\ \A n \in before :
                    /\ heap'[n].foundIn = heap[n].foundIn
                    /\ heap'[n].nameFoundIn = heap[n].nameFoundIn]_vars

\* A file-created merge has acted on a tree that already held the file's
\* content: two Cases of the file share a name and a position, under a Suite
\* that holds the file's location.
C8_Witness ==
    /\ op.kind = "FileCreated"
    /\ \E c1, c2 \in Cases(heap, InTree(heap, rootNode)) :
           /\ c1 # c2
           /\ heap[c1].file = op.file /\ heap[c2].file = op.file
           /\ fqName(heap, c1) = fqName(heap, c2)
           /\ heap[c1].start = heap[c2].start
           /\ heap[c1].parent = heap[c2].parent
           /\ heap[heap[c1].parent].type = "describe"
           /\ op.file \in FoundInFiles(heap, heap[c1].parent)
           /\ <<fqName(heap, c1), heap[c1].start>> \in DeclaredCases(CreatedParse(op), "")

\* The number of Case declarations of a parse with the fully-qualified name fq.
RECURSIVE NumCasesNamed(_, _, _)
NumCasesNamed(pResults, prefix, fq) ==
    IF pResults = <<>> THEN 0
    ELSE LET p == Head(pResults)
             name == (IF prefix # "" THEN prefix \o ":" ELSE "") \o p.name
         IN (IF p.type = "it" /\ name = fq THEN 1 ELSE 0)
            + NumCasesNamed(p.children, name, fq)
            + NumCasesNamed(Tail(pResults), prefix, fq)

Occurrences(s, x) == Cardinality({i \in 1 .. Len(s) : s[i] = x})

\* The Case nodes an operation created.
NewCases(h1, h2) == {n \in (Len(h1) + 1) .. Len(h2) : h2[n].type = "it"}

\* The fully-qualified names the merged parses declare for Cases.
MergedCaseNames(o) ==
    UNION {DeclaredNames(FreshParse(f, o.texts[f]), "", "it") : f \in MergedFiles(o)}

\* C9: in a fresh build and in a merge every incoming Case becomes its own
\* node: per file and fully-qualified name there are as many new Case nodes
\* as declarations, each once in the child list of its parent, Cases of one
\* name under the same parent; and no existing Case is changed by the merge.
C9_CasesNeverMerged ==
    [][op'.kind \in {"LoadTests", "FileCreated"} =>
          LET new == NewCases(heap, heap')
          IN /\ \A f \in MergedFiles(op') : \A fq \in MergedCaseNames(op') :
                    Cardinality({n \in new : heap'[n].file = f /\ fqName(heap', n) = fq})
                        = NumCasesNamed(FreshParse(f, op'.texts[f]), "", fq)
             /\ \A n \in new :
                    /\ heap'[n].parent # 0
                    /\ heap'[heap'[n].parent].type = "describe" \/ heap'[n].parent = rootNode'
                    /\ Occurrences(heap'[heap'[n].parent].children, n) = 1
                    /\ fqName(heap', n) \in MergedCaseNames(op')
             /\ \A n1, n2 \in new :
                    fqName(heap', n1) = fqName(heap', n2) => heap'[n1].parent = heap'[n2].parent
             /\ \A c \in 1 .. Len(heap) : heap[c].type = "it" => SameNode(heap, heap', c)]_vars

\* A full discovery has built two Case nodes for two declarations of one name
\* under one Suite of one file.
C9_Witness ==
    /\ op.kind = "LoadTests"
    /\ \E c1, c2 \in Cases(heap, InTree(heap, rootNode)) :
           /\ c1 # c2
           /\ heap[c1].parent = heap[c2].parent
           /\ heap[c1].name = heap[c2].name
           /\ heap[c1].file = heap[c2].file
           /\ heap[c1].start # heap[c2].start
           /\ NumCasesNamed(FreshParse(heap[c1].file, op.texts[heap[c1].file]), "",
                            fqName(heap, c1)) = 2

\* The number of Case declarations named name directly inside the Suite
\* declared with fully-qualified name suiteFq.
RECURSIVE NumCasesIn(_, _, _, _)
NumCasesIn(pResults, prefix, suiteFq, name) ==
    IF pResults = <<>> THEN 0
    ELSE LET p == Head(pResults)
             fq == (IF prefix # "" THEN prefix \o ":" ELSE "") \o p.name
             direct == {i \in 1 .. Len(p.children) :
                           p.children[i].type = "it" /\ p.children[i].name = name}
         IN (IF p.type = "describe"
             THEN (IF fq = suiteFq THEN Cardinality(direct) ELSE 0)
                  + NumCasesIn(p.children, fq, suiteFq, name)
             ELSE 0)
            + NumCasesIn(Tail(pResults), prefix, suiteFq, name)

\* The Cases of file f reachable from the root under the name fq.
CasesOf(h, root, f, fq) ==
    {c \in Cases(h, InTree(h, root)) : h[c].file = f /\ fqName(h, c) = fq}

\* The edit recorded in o renames Case c of heap h to newName: c is the only
\* reachable Case of the file under its name, its parent is a Suite, the fresh
\* parse declares newName once in that Suite and the old name nowhere, and no
\* Case of the file had the new name.
Renames(h, root, o, c, newName) ==
    LET f == ChangedFile(o)
        suite == h[c].parent
        newFq == fqName(h, suite) \o ":" \o newName
    IN /\ o.kind = "Changed" /\ ~o.raised
       /\ h[c].file = f
       /\ CasesOf(h, root, f, fqName(h, c)) = {c}
       /\ suite # 0 /\ h[suite].type = "describe"
       /\ newName # h[c].name
       /\ NumCasesIn(ChangedParse(o), "", fqName(h, suite), newName) = 1
       /\ NumCasesNamed(ChangedParse(o), "", newFq) = 1
       /\ fqName(h, c) \notin DeclaredNames(ChangedParse(o), "", "it")
       /\ CasesOf(h, root, f, newFq) = {}

\* C10: after reconciling an edit of file F that renames a Case, no Case of F
\* with the old fully-qualified name is reachable from the root, exactly one
\* Case of F with the new name is reachable, and that Case is another node
\* than the old one and carries no run result.
C10_RenameReplacesNode ==
    [][\A c \in Cases(heap, InTree(heap, rootNode)) : \A newName \in Names :
          Renames(heap, rootNode, op', c, newName) =>
              LET f == ChangedFile(op')
                  newFq == fqName(heap, heap[c].parent) \o ":" \o newName
              IN /\ CasesOf(heap', rootNode', f, fqName(heap, c)) = {}
                 /\ Cardinality(CasesOf(heap', rootNode', f, newFq)) = 1
                 /\ \A n \in CasesOf(heap', rootNode', f, newFq) :
                        n # c /\ heap'[n].testResult = ""]_vars

\* An edit has renamed a Case that carried a run result: the old node hangs
\* detached below the Suite, which now holds one new Case of the file under
\* the name the fresh parse declares.
C10_Witness ==
    /\ op.kind = "Changed" /\ ~op.raised
    /\ \E c \in 1 .. Len(heap) : \E n \in Cases(heap, InTree(heap, rootNode)) :
           /\ heap[c].type = "it" /\ c \notin InTree(heap, rootNode)
           /\ heap[c].file = op.file /\ heap[n].file = op.file
           /\ heap[c].parent = heap[n].parent
           /\ heap[heap[n].parent].type = "describe"
           /\ heap[c].name # heap[n].name
           /\ heap[c].testResult # "" /\ heap[n].testResult = ""
           /\ n > c
           /\ fqName(heap, c) \notin DeclaredNames(ChangedParse(op), "", "it")
           /\ NumCasesIn(ChangedParse(op), "", fqName(heap, heap[n].parent), heap[n].name) = 1
           /\ CasesOf(heap, rootNode, op.file, fqName(heap, n)) = {n}

\* The assertion names of a Case node, in order.
ExpectNames(h, c) == [i \in 1 .. Len(h[c].expects) |-> h[h[c].expects[i]].name]

\* The assertion names, in order, of every declaration of Case fq in a parse.
RECURSIVE DeclaredExpects(_, _, _)
DeclaredExpects(pResults, prefix, fq) ==
    UNION { LET p == pResults[i]
                name == (IF prefix # "" THEN prefix \o ":" ELSE "") \o p.name
            IN (IF p.type = "it" /\ name = fq
                THEN {[j \in 1 .. Len(p.expects) |-> p.expects[j].name]}
                ELSE {})
               \cup DeclaredExpects(p.children, name, fq)
            : i \in 1 .. Len(pResults) }

\* The Cases of the edited file that the reconciliation recorded in o pairs
\* with a freshly parsed counterpart: reachable, the only Case of the file
\* under their name, declared once by the fresh parse, in the same Suite.
ReconciledCases(h, root, o) ==
    {c \in Cases(h, InTree(h, root)) :
        /\ o.kind = "Changed" /\ ~o.raised
        /\ h[c].file = ChangedFile(o)
        /\ CasesOf(h, root, ChangedFile(o), fqName(h, c)) = {c}
        /\ NumCasesNamed(ChangedParse(o), "", fqName(h, c)) = 1
        /\ h[c].parent # 0 /\ h[h[c].parent].type = "describe"
        /\ NumCasesIn(ChangedParse(o), "", fqName(h, h[c].parent), h[c].name) = 1}

\* C11: after a Case is reconciled against its freshly parsed counterpart,
\* its assertion list is the freshly parsed assertion list, in order (empty
\* when the fresh parse has none), and holds none of its previous Assertion
\* nodes.
C11_ExpectsReplaced ==
    [][\A c \in ReconciledCases(heap, rootNode, op') :
          /\ c \in InTree(heap', rootNode')
          /\ DeclaredExpects(ChangedParse(op'), "", fqName(heap, c)) = {ExpectNames(heap', c)}
          /\ SeqToSet(heap'[c].expects) \cap SeqToSet(heap[c].expects) = {}
          /\ \A e \in SeqToSet(heap'[c].expects) : e > Len(heap) /\ heap'[e].type = "expect"]_vars

\* An edit has replaced the one assertion of a reconciled Case by another: the
\* Case now lists a new assertion node of another name, and the old node,
\* which still names the Case as its parent, is no longer listed.
C11_Witness ==
    /\ op.kind = "Changed" /\ ~op.raised
    /\ \E c \in Cases(heap, InTree(heap, rootNode)) : \E old \in 1 .. Len(heap) :
           /\ heap[c].file = op.file
           /\ heap[old].type = "expect" /\ heap[old].parent = c
           /\ old \notin SeqToSet(heap[c].expects)
           /\ Len(heap[c].expects) = 1
           /\ heap[c].expects[1] > old
           /\ heap[heap[c].expects[1]].name # heap[old].name
           /\ DeclaredExpects(ChangedParse(op), "", fqName(heap, c)) = {ExpectNames(heap, c)}

(***************************************************************************)
(* The aggregated status as a function of a container's children: every    *)
(* container with up to MaxChildren children, each a Case with one of the   *)
(* statuses of a report or none, or an empty Suite holding a result.        *)
(***************************************************************************)
MaxChildren == 3

ChildResults == {"", "passed", "failed", "pending", "skipped", "todo", "container"}

\* A Suite holding a result (node 1) over children with the results rs.
StatusHeap(rs) ==
    << [NewNode("describe", "", "A") EXCEPT
            !.testResult = "container",
            !.children = [i \in 1 .. Len(rs) |-> i + 1]] >>
    \o [i \in 1 .. Len(rs) |->
            [NewNode(IF rs[i] = "container" THEN "describe" ELSE "it",
                     IF rs[i] = "container" THEN "" ELSE "f1",
                     IF i = 1 THEN "x" ELSE IF i = 2 THEN "y" ELSE "B")
                EXCEPT !.testResult = rs[i], !.parent = 1]]

StatusInit ==
    /\ \E k \in 0 .. MaxChildren : \E rs \in [1 .. k -> ChildResults] : heap = StatusHeap(rs)
    /\ rootNode = 0
    /\ fileTestNodes = NoFileTestNodes
    /\ jestDirs = <<>>
    /\ op = [kind |-> "init", file |-> "", texts |-> NoTexts, raised |-> FALSE]
    /\ nOps = 0
    /\ NoTiming
    /\ runs = <<>>
    /\ NoCoverage
    /\ NewStack
    /\ NoAsync

\* A reader asks the container's result for its status.
GetStatus ==
    /\ nOps = 0
    /\ op' = [kind |-> "status", file |-> "", texts |-> NoTexts, raised |-> FALSE,
              status |-> testResultStatus(heap, 1)]
    /\ nOps' = 1
    /\ UNCHANGED <<heap, rootNode, fileTestNodes, jestDirs, timing, runs, coverage, stack, async>>

StatusNext == GetStatus

SpecStatus == StatusInit /\ [][StatusNext]_vars

\* The statuses of the direct children of n ("" for a child without result).
ChildStatuses(h, n) == [i \in 1 .. Len(h[n].children) |-> testResultStatus(h, h[n].children[i])]

AllAre(sts, s) == \A i \in 1 .. Len(sts) : sts[i] = s

\* C12: the aggregated status of a container that holds a result is pending
\* if it has no children; otherwise failed if any direct child is failed;
\* otherwise passed if every direct child is passed, else skipped if every
\* direct child is skipped, else todo if every direct child is todo;
\* otherwise pending.
C12_AggregatedStatus ==
    op.kind = "status" =>
        LET sts == ChildStatuses(heap, 1)
        IN op.status =
             (IF Len(sts) = 0 THEN "pending"
              ELSE IF \E i \in 1 .. Len(sts) : sts[i] = "failed" THEN "failed"
              ELSE IF AllAre(sts, "passed") THEN "passed"
              ELSE IF AllAre(sts, "skipped") THEN "skipped"
              ELSE IF AllAre(sts, "todo") THEN "todo"
              ELSE "pending")

\* The status of a container over a passed and a skipped child has been asked
\* for, and is pending.
C12_Witness ==
    /\ op.kind = "status"
    /\ ChildStatuses(heap, 1) = <<"passed", "skipped">>
    /\ op.status = "pending"

\* The fully-qualified name a report entry is looked up under.
EntryName(a) ==
    (IF join(a.ancestorTitles) # "" THEN join(a.ancestorTitles) \o ":" ELSE "") \o a.title

Entries(report) == {report[i] : i \in 1 .. Len(report)}

\* The Case of the root's rollup a report entry is correlated with: the first
\* with the entry's name; 0 when there is none.
MatchedCase(h, root, a) ==
    LET its == h[root].itBlocks
        idx == {i \in 1 .. Len(its) : fqName(h, its[i]) = EntryName(a)}
    IN IF idx = {} THEN 0 ELSE its[CHOOSE i \in idx : \A j \in idx : i <= j]

\* The ancestors of a node along the parent references, the root last.
RECURSIVE Ancestors(_, _)
Ancestors(h, n) ==
    IF h[n].parent = 0 THEN {} ELSE {h[n].parent} \cup Ancestors(h, h[n].parent)

\* The Case is the only leaf under its ancestor chain: every ancestor has one
\* child, the next node of the chain.
OnlyLeaf(h, c) ==
    \A n \in Ancestors(h, c) \cup {c} :
        h[n].parent # 0 => h[h[n].parent].children = <<n>>

\* C13 as stated: after a report is correlated, the Case an entry matches has
\* the entry's status, every ancestor of the Case up to the root holds a
\* result, and where the Case is the only leaf under its ancestors each
\* ancestor's aggregated status is the Case's status.
C13_EntryApplied ==
    [][op'.kind = "Results" =>
          \A a \in Entries(op'.report) :
              LET c == MatchedCase(heap, rootNode, a)
              IN c # 0 =>
                    /\ heap'[c].testResult = a.status
                    /\ \A n \in Ancestors(heap', c) : heap'[n].testResult # ""
                    /\ OnlyLeaf(heap', c) =>
                           \A n \in Ancestors(heap', c) : testResultStatus(heap', n) = a.status]_vars

\* C13, with the update policy: the matched Case has the entry's status unless
\* the entry is pending and the Case already held a result, which it then
\* keeps; every ancestor up to the root holds a result; and where the Case is
\* the only leaf under its ancestors each ancestor's aggregated status is the
\* status of the Case.
C13_EntryAppliedByPolicy ==
    [][op'.kind = "Results" =>
          \A a \in Entries(op'.report) :
              LET c == MatchedCase(heap, rootNode, a)
              IN c # 0 =>
                    /\ heap'[c].testResult =
                           (IF a.status = "pending" /\ heap[c].testResult # ""
                            THEN heap[c].testResult ELSE a.status)
                    /\ rootNode' \in Ancestors(heap', c)
                    /\ \A n \in Ancestors(heap', c) : heap'[n].testResult # ""
                    /\ OnlyLeaf(heap', c) =>
                           \A n \in Ancestors(heap', c) :
                               testResultStatus(heap', n) = heap'[c].testResult]_vars

\* A report has given the only Case of the tree, two levels below the root,
\* the status passed, and the Suite above it and the root aggregate to passed.
C13_Witness ==
    /\ op.kind = "Results"
    /\ \E a \in Entries(op.report) :
           LET c == MatchedCase(heap, rootNode, a)
           IN /\ c # 0
              /\ a.status = "passed" /\ heap[c].testResult = "passed"
              /\ OnlyLeaf(heap, c)
              /\ Cardinality(Ancestors(heap, c)) = 2
              /\ \A n \in Ancestors(heap, c) :
                     heap[n].testResult = "container" /\ testResultStatus(heap, n) = "passed"

Definitive == {"passed", "failed", "skipped", "todo"}

\* C14: across any sequence of correlated reports a Case's status never
\* changes from passed, failed, skipped or todo to pending: a pending entry is
\* applied only to a Case without result, an entry with any other status
\* always replaces the Case's result.
C14_NoDowngradeToPending ==
    [][/\ \A c \in 1 .. Len(heap) :
              heap[c].type = "it" /\ heap[c].testResult \in Definitive
                  => heap'[c].testResult # "pending"
       /\ op'.kind = "Results" =>
              \A a \in Entries(op'.report) :
                  LET c == MatchedCase(heap, rootNode, a)
                  IN c # 0 =>
                        /\ a.status = "pending" =>
                               (heap'[c].testResult = "pending") = (heap[c].testResult \in {"", "pending"})
                        /\ a.status # "pending" => heap'[c].testResult = a.status]_vars

\* A report with a pending entry has been correlated and the Case the entry
\* names still holds the status passed of an earlier report.
C14_Witness ==
    /\ op.kind = "Results"
    /\ \E a \in Entries(op.report) :
           /\ a.status = "pending"
           /\ MatchedCase(heap, rootNode, a) # 0
           /\ heap[MatchedCase(heap, rootNode, a)].testResult = "passed"

\* The Cases the entries of a report are correlated with.
MatchedCases(h, root, report) ==
    {MatchedCase(h, root, a) : a \in Entries(report)} \ {0}

\* C15: a report entry whose joined name matches no Case of the root's rollup
\* changes no node's result or running flag and raises no error, and every
\* other entry of the report is still applied: only the matched Cases and
\* their ancestors change, and each matched Case is assigned by the policy.
C15_UnmatchedDropped ==
    [][(/\ op'.kind = "Results"
        /\ \E a \in Entries(op'.report) : MatchedCase(heap, rootNode, a) = 0) =>
          LET matched == MatchedCases(heap, rootNode, op'.report)
              touched == matched \cup UNION {Ancestors(heap, c) : c \in matched}
          IN /\ ~op'.raised
             /\ Len(heap') = Len(heap)
             /\ \A n \in 1 .. Len(heap) :
                    n \notin touched =>
                        /\ heap'[n].testResult = heap[n].testResult
                        /\ heap'[n].running = heap[n].running
             /\ \A a \in Entries(op'.report) :
                    LET c == MatchedCase(heap, rootNode, a)
                    IN c # 0 =>
                          heap'[c].testResult =
                              (IF a.status = "pending" /\ heap[c].testResult # ""
                               THEN heap[c].testResult ELSE a.status)]_vars

\* A report has been correlated whose first entry matches no Case and whose
\* second entry has given its Case the status it reports.
C15_Witness ==
    /\ op.kind = "Results" /\ ~op.raised
    /\ Len(op.report) = 2
    /\ MatchedCase(heap, rootNode, op.report[1]) = 0
    /\ MatchedCase(heap, rootNode, op.report[2]) # 0
    /\ heap[MatchedCase(heap, rootNode, op.report[2])].testResult = op.report[2].status

\* C16: after the correlation pass of a new run no node carries a result of
\* an earlier run: a Case of the root's rollup that the new report does not
\* mention has no result, and a container holds a result only if the new
\* report gave one to a Case below it.
C16_ResultsReplacedWholesale ==
    [][op'.kind = "Results" =>
          LET mentioned == {EntryName(a) : a \in Entries(op'.report)}
              its == SeqToSet(heap'[rootNode'].itBlocks)
          IN /\ \A c \in its :
                    fqName(heap', c) \notin mentioned => heap'[c].testResult = ""
             /\ \A n \in InTree(heap', rootNode') :
                    isContainer(heap', n) /\ heap'[n].testResult # "" =>
                        \E c \in MatchedCases(heap, rootNode, op'.report) :
                            n \in Ancestors(heap', c)]_vars

(***************************************************************************)
(* Properties of edits in time                                             *)
(***************************************************************************)
Reconciliations(l) == {i \in 1 .. Len(l) : l[i].kind = "reconciled"}

PendingParses == {tm \in timers : tm.fn = "parseChangedDocument"}

\* The last edit before position i of the log; 0 when there is none.
LastEditBefore(l, i) ==
    LET before == {j \in Edits(l) : j < i}
    IN IF before = {} THEN 0 ELSE CHOOSE j \in before : \A k \in before : k <= j

\* C17: of the edits of a burst exactly one reconciliation runs: at most one
\* reconciliation timer is pending at any time; a reconciliation that runs is
\* the one the last edit before it scheduled, runs once, no earlier than the
\* debounce interval after that edit, on that edit's file and document text;
\* and once no timer is pending the last edit has been reconciled.
C17_OneTrailingReconciliation ==
    /\ Cardinality(PendingParses) <= 1
    /\ \A i \in Reconciliations(log) :
           LET last == LastEditBefore(log, i)
           IN /\ last # 0
              /\ log[i].id = log[last].id
              /\ log[i].file = log[last].file
              /\ log[i].text = log[last].text
              /\ log[i].time >= log[last].time + ParseWait
              /\ \A k \in Reconciliations(log) : log[k].id = log[i].id => k = i
    /\ (PendingParses = {} /\ Edits(log) # {}) =>
           \E i \in Reconciliations(log) : LastEditBefore(log, Len(log) + 1) < i

\* A burst of two edits of one file, less than the debounce interval apart and
\* leaving different texts, has been followed by one reconciliation, which
\* used the text of the second edit; no timer is pending.
C17_Witness ==
    /\ PendingParses = {}
    /\ Len(log) >= 3
    /\ \E j \in Edits(log) : \E k \in Edits(log) :
           /\ j < k /\ k < Len(log)
           /\ log[j].file = log[k].file
           /\ log[j].text # log[k].text
           /\ log[k].time - log[j].time < ParseWait
           /\ log[k].time > log[j].time
           /\ \A i \in Reconciliations(log) : i = Len(log)
           /\ log[Len(log)].kind = "reconciled"
           /\ log[Len(log)].text = log[k].text
           /\ log[Len(log)].id = log[k].id

\* The previous reconciliation of file f before position i of the log; 0 when
\* there is none.
PreviousReconciliation(l, f, i) ==
    LET before == {j \in Reconciliations(l) : j < i /\ l[j].file = f}
    IN IF before = {} THEN 0 ELSE CHOOSE j \in before : \A k \in before : k <= j

\* C18: whenever a completed reconciliation of file F is delivered, a "file
\* invalidated" notification for F was fired earlier, at the first edit of F
\* since F's previous reconciliation.
C18_InvalidatedBeforeReconciled ==
    \A i \in Reconciliations(log) :
        ~log[i].raised =>
            LET f == log[i].file
                prev == PreviousReconciliation(log, f, i)
                since == {j \in Edits(log) : prev < j /\ j < i /\ log[j].file = f}
            IN /\ since # {}
               /\ LET first == CHOOSE j \in since : \A k \in since : j <= k
                  IN \E n \in 1 .. Len(log) :
                         /\ n < i
                         /\ log[n].kind = "updating"
                         /\ log[n].file = f
                         /\ log[n].id = log[first].id

\* The same for behaviours that edit one file only.
C18_OneFileOnly ==
    (\A j \in Edits(log) : \A k \in Edits(log) : log[j].file = log[k].file)
        => C18_InvalidatedBeforeReconciled

\* C19: when a full discovery has installed a new tree between the edit that
\* scheduled a reconciliation and the run of that reconciliation, the run
\* leaves the installed tree as it was.
C19_StaleReconciliationLost ==
    [][(op'.kind = "Changed" /\ op'.stale) =>
          /\ InTree(heap', rootNode') = InTree(heap, rootNode)
          /\ \A n \in InTree(heap, rootNode) : heap'[n] = heap[n]]_vars

\* C20: after a Case or Suite is removed from the tree by reconciliation or
\* by file deletion its parent reference is undefined.
C20_RemovedNodesDetached ==
    [][op'.kind \in {"Changed", "FileDeleted"} =>
          \A n \in InTree(heap, rootNode) :
              (heap[n].type \in {"it", "describe"} /\ n \notin InTree(heap', rootNode'))
                  => heap'[n].parent = 0]_vars

\* The nodes reachable from the root through child lists and assertion lists.
Owned(h, root) ==
    InTree(h, root) \cup UNION {SeqToSet(h[n].expects) : n \in InTree(h, root)}

\* The number of places node n takes in the child and assertion lists of o.
Places(h, o, n) == Occurrences(h[o].children, n) + Occurrences(h[o].expects, n)

\* Node n has one owner among the nodes of the tree, holding it once, and its
\* parent reference is that owner.
SingleOwner(h, root, n) ==
    \E o \in Owned(h, root) :
        /\ Places(h, o, n) = 1
        /\ h[n].parent = o
        /\ \A o2 \in Owned(h, root) : o2 # o => Places(h, o2, n) = 0

\* C21: after every completed operation every node reachable from the root
\* occurs in exactly one owner's child list or assertion list, and its parent
\* reference is that owner.
C21_ExactlyOneOwner ==
    \A n \in Owned(heap, rootNode) : n # rootNode => SingleOwner(heap, rootNode, n)

\* The same for Suites and Cases only, leaving Assertion nodes aside.
C21_SuitesAndCasesOnly ==
    \A n \in InTree(heap, rootNode) : n # rootNode => SingleOwner(heap, rootNode, n)

\* C22: after every completed operation no Suite reachable from the root has
\* both an empty set of foundIn entries and no children.
C22_NoEmptyUnlocatedSuite ==
    \A n \in Suites(heap, InTree(heap, rootNode)) :
        ~(heap[n].foundIn = <<>> /\ heap[n].children = <<>>)

\* An edit or a file deletion has taken the last location entry and the last
\* child of a Suite, and the Suite is no longer reachable from the root it
\* still names as its parent.
C22_Witness ==
    /\ op.kind \in {"Changed", "FileDeleted"} /\ ~op.raised
    /\ \E n \in 1 .. Len(heap) :
           /\ heap[n].type = "describe"
           /\ heap[n].foundIn = <<>> /\ heap[n].children = <<>>
           /\ heap[n].parent = rootNode
           /\ n \notin InTree(heap, rootNode)

\* After a file-deleted event for f: no Case of f is reachable or listed in
\* a rollup of the tree.
DeletedCasesGone(h2, root, f) ==
    \A n \in InTree(h2, root) :
        /\ h2[n].type = "it" => h2[n].file # f
        /\ \A c \in SeqToSet(h2[n].itBlocks) : h2[c].file # f

\* No Suite of the tree has a location entry for f.
DeletedLocationsGone(h2, root, f) ==
    \A n \in Suites(h2, InTree(h2, root)) :
        f \notin FoundInFiles(h2, n) \cup NameFoundInFiles(h2, n)

\* Every Suite whose only locations were in f is absent from the tree.
OnlyInDeletedPruned(h1, h2, root, f) ==
    \A n \in Suites(h1, InTree(h1, root)) :
        FoundInFiles(h1, n) = {f} => n \notin InTree(h2, root)

\* Every Suite that also has locations in other files is still present,
\* together with its Cases owned by those files.
SharedWithDeletedKept(h1, h2, root, f) ==
    \A n \in Suites(h1, InTree(h1, root)) :
        FoundInFiles(h1, n) \ {f} # {} =>
            /\ n \in InTree(h2, root)
            /\ \A c \in SeqToSet(h1[n].children) :
                   (h1[c].type = "it" /\ h1[c].file # f) =>
                       /\ c \in SeqToSet(h2[n].children)
                       /\ c \in SeqToSet(h2[n].itBlocks)

\* C23: after a file-deleted event for a known file F no Case owned by F is
\* reachable from the root or listed in any rollup, no Suite has a location
\* entry for F, every Suite whose only locations were in F is absent from the
\* tree, and every Suite that also has locations in other files is still
\* present together with its Cases owned by those files.
C23_FileDeleted ==
    [][op'.kind = "FileDeleted" =>
          /\ DeletedCasesGone(heap', rootNode', op'.file)
          /\ DeletedLocationsGone(heap', rootNode', op'.file)
          /\ OnlyInDeletedPruned(heap, heap', rootNode, op'.file)
          /\ SharedWithDeletedKept(heap, heap', rootNode, op'.file)]_vars

\* The same for deletions in states whose rollups are exact.
C23_AfterExactRollups ==
    [][(op'.kind = "FileDeleted" /\ C1_RollupExact) =>
          /\ DeletedCasesGone(heap', rootNode', op'.file)
          /\ DeletedLocationsGone(heap', rootNode', op'.file)
          /\ OnlyInDeletedPruned(heap, heap', rootNode, op'.file)
          /\ SharedWithDeletedKept(heap, heap', rootNode, op'.file)]_vars

\* The fully-qualified names of the Suites and Cases of the tree owned by or
\* located in file f.
NamesInTree(h, root, f) ==
    {fqName(h, n) : n \in {c \in InTree(h, root) :
                              \/ h[c].type = "it" /\ h[c].file = f
                              \/ h[c].type = "describe" /\ f \in FoundInFiles(h, c)}}

\* C24: when a full discovery covers several files and one of them is
\* malformed, the discovery still completes and installs a tree that holds
\* every declaration of the well-formed files and none from the malformed file.
C24_MalformedFileSkipped ==
    [][(/\ op'.kind = "LoadTests"
        /\ \E f \in Files : op'.texts[f] \in MalformedTexts) =>
          /\ ~op'.raised
          /\ rootNode' # rootNode /\ rootNode' # 0
          /\ \A f \in Files :
                 NamesInTree(heap', rootNode', f) =
                     DeclaredNames(FreshParse(f, op'.texts[f]), "", "it")
                         \cup DeclaredNames(FreshParse(f, op'.texts[f]), "", "describe")]_vars

(***************************************************************************)
(* Test runs: TestCommands.runTestCommand                                  *)
(***************************************************************************)
\* Number of run sequences in one behaviour.
MaxRuns == 2

\* Number of full discoveries in one behaviour of runs.
MaxRunLoads == 1

\* What a discovery finds in a file before a run.
RunTexts == {1}

\* What Executor.exec hands to its callback: no error, or an error whose
\* message may include "FAIL" and whose process may have been killed.
ExecErrors ==
    {[present |-> FALSE, FAIL |-> FALSE, killed |-> FALSE]}
        \cup {[present |-> TRUE, FAIL |-> b, killed |-> k] : b, k \in BOOLEAN}

\* The directories of a run: the one of the test's file for a single Case,
\* every project directory otherwise.
testDirectories(h, dirs, test) ==
    IF test # 0 /\ h[test].type \notin {"root", "describe"} /\ h[test].file # ""
    THEN 1
    ELSE Len(dirs)

\* The callback of Executor.exec in runTestCommandForSpecificDirectory: what
\* becomes of the promise.  parses tells whether JSON.parse accepts stdout.
execCallback(err, parses) ==
    IF err.present /\ ~err.FAIL
    THEN IF ~err.killed THEN "reject" ELSE "return"
    ELSE IF parses THEN "resolve" ELSE "throw"

\* ParseTestResults on the current tree.
parseTestResults(h, root, report) ==
    IF root = 0 THEN h ELSE correlate(h, h[root].itBlocks, report)

\* A run sequence of `test` (0 for all tests) at the start of its first
\* directory.
newRun(n, test) ==
    [dirs |-> n, i |-> IF n = 0 THEN 0 ELSE 1,
     phase |-> IF n = 0 THEN "done" ELSE "running",
     killed |-> FALSE, correlated |-> {}, errors |-> 0, discoveries |-> 0,
     test |-> test]

\* TestExplorerTree.updateTreeWithRunningTests, the listener of onTestRun:
\* the Cases of a container, or the Case itself, are marked running.
updateTreeWithRunningTests(h, node) ==
    IF node = 0 THEN h
    ELSE LET testRun == IF h[node].type \in {"root", "describe"}
                        THEN SeqToSet(h[node].itBlocks) ELSE {node}
         IN [n \in 1 .. Len(h) |-> IF n \in testRun THEN [h[n] EXCEPT !.running = TRUE]
                                   ELSE h[n]]

\* TestExplorerTree.updateTreeWithStoppedTests, the listener of onTestStop:
\* no Case of the tree is running.
updateTreeWithStoppedTests(h, root) ==
    IF root = 0 THEN h
    ELSE [n \in 1 .. Len(h) |-> IF n \in SeqToSet(h[root].itBlocks)
                                THEN [h[n] EXCEPT !.running = FALSE] ELSE h[n]]

\* runTestCommandForSpecificDirectory fires onTestRun with the test of the
\* run, or with the root installed now.
onTestRun(h, root, test) ==
    updateTreeWithRunningTests(h, IF test # 0 THEN test ELSE root)

\* runSeq where a rejected directory does not end the loop.
runSeq_skipRejected(run, outcome) ==
    CASE outcome \in {"resolve", "reject"} ->
             [run EXCEPT !.correlated = IF outcome = "resolve" THEN @ \cup {run.i} ELSE @,
                         !.i = IF run.i < run.dirs THEN @ + 1 ELSE @,
                         !.phase = IF run.i < run.dirs THEN "running" ELSE "done",
                         !.errors = IF outcome = "reject" THEN @ + 1 ELSE @,
                         !.discoveries = IF outcome = "reject" THEN @ + 1 ELSE @]
      [] OTHER -> [run EXCEPT !.phase = "pending"]

\* runSeq after the promise of directory run.i got its outcome: the loop goes
\* on to the next directory when it resolved; the catch logs the error and
\* starts discoverTests when it rejected; the sequence waits for ever when the
\* callback returned or threw without settling the promise.
runSeq(run, outcome) ==
    CASE outcome = "resolve" ->
             [run EXCEPT !.correlated = @ \cup {run.i},
                         !.i = IF run.i < run.dirs THEN @ + 1 ELSE @,
                         !.phase = IF run.i < run.dirs THEN "running" ELSE "done"]
      [] outcome = "reject" ->
             [run EXCEPT !.phase = "failed",
                         !.errors = @ + 1,
                         !.discoveries = @ + 1]
      [] OTHER -> [run EXCEPT !.phase = "pending"]

\* runAllTests and runTest.
RunTestCommand(test) ==
    /\ Len(runs) < MaxRuns
    /\ test = 0 \/ (rootNode # 0 /\ test \in InTree(heap, rootNode))
    /\ runs' = Append(runs, newRun(testDirectories(heap, jestDirs, test), test))
    /\ heap' = IF testDirectories(heap, jestDirs, test) > 0
               THEN onTestRun(heap, rootNode, test) ELSE heap
    /\ op' = [kind |-> "RunTestCommand", file |-> "", texts |-> NoTexts, raised |-> FALSE]
    /\ UNCHANGED <<rootNode, fileTestNodes, jestDirs, nOps, timing, coverage, stack, async>>

\* stopTests: Executor.stop kills the runner of every run in progress, and
\* onTestStop is fired.
StopTests ==
    /\ \E r \in 1 .. Len(runs) : runs[r].phase = "running" /\ ~runs[r].killed
    /\ runs' = [r \in 1 .. Len(runs) |->
                   IF runs[r].phase = "running"
                   THEN [runs[r] EXCEPT !.killed = TRUE]
                   ELSE runs[r]]
    /\ heap' = updateTreeWithStoppedTests(heap, rootNode)
    /\ op' = [kind |-> "StopTests", file |-> "", texts |-> NoTexts, raised |-> FALSE]
    /\ UNCHANGED <<rootNode, fileTestNodes, jestDirs, nOps, timing, coverage, stack, async>>

\* The runner of the current directory of run r ends and Executor.exec calls
\* back.  A killed runner ends with an error marked killed.  When the promise
\* resolves and a directory is left, runSeq starts it, which fires onTestRun.
RunnerExits(r, err, report, parses) ==
    /\ r \in 1 .. Len(runs)
    /\ runs[r].phase = "running"
    /\ err.killed = runs[r].killed
    /\ LET outcome == execCallback(err, parses)
           h1 == IF outcome = "resolve"
                 THEN parseTestResults(heap, rootNode, report)
                 ELSE heap
       IN /\ heap' = IF outcome = "resolve" /\ runs[r].i < runs[r].dirs
                     THEN onTestRun(h1, rootNode, runs[r].test)
                     ELSE h1
          /\ runs' = [runs EXCEPT ![r] = runSeq(runs[r], outcome)]
          /\ op' = [kind |-> "RunnerExits", file |-> "", texts |-> NoTexts,
                    raised |-> outcome = "reject", report |-> report,
                    run |-> r, err |-> err, parses |-> parses]
    /\ UNCHANGED <<rootNode, fileTestNodes, jestDirs, nOps, timing, coverage, stack, async>>

RunNext ==
    \/ \E texts \in [Files -> RunTexts] : nOps < MaxRunLoads /\ LoadTests(texts)
    \/ \E test \in 0 .. Len(heap) : RunTestCommand(test)
    \/ StopTests
    \/ \E r \in 1 .. MaxRuns, err \in ExecErrors, report \in Reports, parses \in BOOLEAN :
           RunnerExits(r, err, report, parses)

SpecRun == Init /\ [][RunNext]_vars

\* The step is the end of the runner of a directory of run op'.run.
RunnerExited == op'.kind = "RunnerExits" /\ runs' # runs

\* C25: when the runner of a directory exits abnormally for a reason other
\* than failing tests and was not killed, its output is not correlated onto
\* the tree, the error reaches the run sequence, no later directory of that
\* run is started, and exactly one full discovery is started.
C25_AbnormalExitFallsBack ==
    [][/\ (RunnerExited /\ op'.err.present /\ ~op'.err.FAIL /\ ~op'.err.killed) =>
              LET before == runs[op'.run]
                  after == runs'[op'.run]
              IN /\ heap' = heap
                 /\ after.correlated = before.correlated
                 /\ op'.raised /\ after.errors = before.errors + 1
                 /\ after.i = before.i
                 /\ after.discoveries = before.discoveries + 1
       /\ \A r \in 1 .. Len(runs) :
              runs[r].phase = "failed" => runs'[r] = runs[r]]_vars

\* A run over several directories whose first runner exited abnormally.
C25_Witness ==
    /\ op.kind = "RunnerExits"
    /\ op.err.present /\ ~op.err.FAIL /\ ~op.err.killed
    /\ rootNode # 0
    /\ runs[op.run].phase = "failed"
    /\ runs[op.run].i < runs[op.run].dirs
    /\ runs[op.run].discoveries = 1

\* C26: when a run is cancelled (its runner process is killed), no error is
\* propagated to the run sequence, no full re-discovery is started, and
\* nothing of that run's output is correlated onto the tree.
C26_KilledRunDropped ==
    [][(RunnerExited /\ runs[op'.run].killed) =>
           LET before == runs[op'.run]
               after == runs'[op'.run]
           IN /\ ~op'.raised /\ after.errors = before.errors
              /\ after.discoveries = before.discoveries
              /\ heap' = heap
              /\ after.correlated = before.correlated]_vars

\* C26 for a killed runner whose error message does not include "FAIL".
C26_KilledWithoutFailuresDropped ==
    [][(RunnerExited /\ runs[op'.run].killed /\ ~op'.err.FAIL) =>
           LET before == runs[op'.run]
               after == runs'[op'.run]
           IN /\ ~op'.raised /\ after.errors = before.errors
              /\ after.discoveries = before.discoveries
              /\ heap' = heap
              /\ after.correlated = before.correlated]_vars

(***************************************************************************)
(* Coverage: FileCoverageResult and CoverageMapManager                     *)
(***************************************************************************)
\* Number of coverage records processed in one behaviour.
MaxCoverageRuns == 2

\* Largest hit count of a statement in a raw record.
MaxHits == 2

\* A line or column that is null or negative in the raw record.
InvalidPos == -1

Pos(line, column) == [line |-> line, column |-> column]

CoverageLoc(l1, c1, l2, c2) == [start |-> Pos(l1, c1), end |-> Pos(l2, c2)]

\* vscode.Range.
Range(l1, c1, l2, c2) == [start |-> Pos(l1, c1), end |-> Pos(l2, c2)]

DefaultRange == Range(DefaultPosition, DefaultPosition, DefaultPosition, DefaultPosition)

posInvalid(pos) == pos.line < 0 \/ pos.column < 0

\* FileCoverageResult.locToRange: 1-based lines become 0-based; an invalid
\* start gives DefaultRange, an invalid end is replaced by the start.
locToRange(loc) ==
    IF posInvalid(loc.start)
    THEN DefaultRange
    ELSE LET end == IF posInvalid(loc.end) THEN loc.start ELSE loc.end
         IN Range(loc.start.line - 1, loc.start.column, end.line - 1, end.column)

\* The keys of a numeric-id map in the order Object.keys lists them.
RECURSIVE keysOf(_)
keysOf(S) ==
    IF S = {} THEN <<>>
    ELSE LET k == CHOOSE x \in S : \A y \in S : x <= y
         IN <<k>> \o keysOf(S \ {k})

\* The loop of the constructor over the keys of statementHits that derives
\* lineMap where every iteration stores its count.
RECURSIVE lineMap_lastWins(_, _, _, _)
lineMap_lastWins(keys, statementMap, statementHits, lines) ==
    IF keys = <<>> THEN lines
    ELSE LET key == Head(keys)
         IN IF key \notin DOMAIN statementMap
            THEN lineMap_lastWins(Tail(keys), statementMap, statementHits, lines)
            ELSE LET line == statementMap[key].start.line
                     count == statementHits[key]
                 IN lineMap_lastWins(Tail(keys), statementMap, statementHits,
                        [l \in DOMAIN lines \cup {line} |->
                            IF l = line THEN count ELSE lines[l]])

\* The loop of the constructor over the keys of statementHits that derives
\* lineMap: a statement counts on the line its range starts on.
RECURSIVE lineMap(_, _, _, _)
lineMap(keys, statementMap, statementHits, lines) ==
    IF keys = <<>> THEN lines
    ELSE LET key == Head(keys)
         IN IF key \notin DOMAIN statementMap
            THEN lineMap(Tail(keys), statementMap, statementHits, lines)
            ELSE LET line == statementMap[key].start.line
                     count == statementHits[key]
                 IN IF line \notin DOMAIN lines \/ lines[line] < count
                    THEN lineMap(Tail(keys), statementMap, statementHits,
                             [l \in DOMAIN lines \cup {line} |->
                                 IF l = line THEN count ELSE lines[l]])
                    ELSE lineMap(Tail(keys), statementMap, statementHits, lines)

\* The quotient of two numbers as the runtime computes it: 0 / 0 is NaN and
\* a positive number over 0 is Infinity, neither raises.
divide(a, b) ==
    IF b = 0
    THEN [kind |-> IF a = 0 THEN "NaN" ELSE "Infinity", num |-> a, den |-> b]
    ELSE [kind |-> "number", num |-> a, den |-> b]

RECURSIVE sum(_, _)
sum(f, S) ==
    IF S = {} THEN 0
    ELSE LET k == CHOOSE x \in S : TRUE IN f[k] + sum(f, S \ {k})

\* getHits of calculateMetrics: 1 for a positive count, the number of positive
\* counts for an array of counts.
getHits(hits, isArray) ==
    IF ~isArray
    THEN IF hits > 0 THEN 1 ELSE 0
    ELSE Cardinality({i \in DOMAIN hits : hits[i] > 0})

metric(name, instanceCount, hitCount) ==
    [name |-> name, instanceCount |-> instanceCount, hitCount |-> hitCount,
     percentage |-> divide(hitCount, instanceCount)]

\* FileCoverageResult.calculateMetrics.
calculateMetrics(r) ==
    LET statements == Cardinality(DOMAIN r.statementMap)
        statementHits == sum([k \in DOMAIN r.statementHits |-> getHits(r.statementHits[k], FALSE)],
                             DOMAIN r.statementHits)
        fns == Cardinality(DOMAIN r.fnMap)
        fnHits == sum([k \in DOMAIN r.fnHits |-> getHits(r.fnHits[k], FALSE)], DOMAIN r.fnHits)
        branches == sum([k \in DOMAIN r.branchMap |-> Len(r.branchMap[k].locations)],
                        DOMAIN r.branchMap)
        branchHits == sum([k \in DOMAIN r.branchHits |-> getHits(r.branchHits[k], TRUE)],
                          DOMAIN r.branchHits)
        lines == Cardinality(DOMAIN r.lineMap)
        lineHits == Cardinality({l \in DOMAIN r.lineMap : r.lineMap[l] > 0})
    IN [statements |-> metric("statements", statements, statementHits),
        functions |-> metric("functions", fns, fnHits),
        branches |-> metric("branches", branches, branchHits),
        lines |-> metric("lines", lines, lineHits)]

MapNames == {"branchMap", "fnMap", "statementMap", "b", "f", "s"}

\* The constructor throws a TypeError on Object.keys of a map the record lacks.
Malformed(jsonNode) == jsonNode.missing # {}

\* new FileCoverageResult(jsonNode) for a record that has all its maps.
FileCoverageResult(jsonNode) ==
    LET r == [path |-> jsonNode.path,
              branchMap |-> [k \in DOMAIN jsonNode.branchMap |->
                                [type |-> jsonNode.branchMap[k].type,
                                 loc |-> locToRange(jsonNode.branchMap[k].loc),
                                 locations |-> [i \in DOMAIN jsonNode.branchMap[k].locations |->
                                                   locToRange(jsonNode.branchMap[k].locations[i])]]],
              fnMap |-> [k \in DOMAIN jsonNode.fnMap |->
                            [name |-> jsonNode.fnMap[k].name,
                             loc |-> locToRange(jsonNode.fnMap[k].loc)]],
              statementMap |-> [k \in DOMAIN jsonNode.statementMap |->
                                   locToRange(jsonNode.statementMap[k])],
              branchHits |-> jsonNode.b,
              fnHits |-> jsonNode.f,
              statementHits |-> jsonNode.s]
        l == lineMap(keysOf(DOMAIN r.statementHits), r.statementMap, r.statementHits,
                     [x \in {} |-> 0])
        rl == [path |-> r.path, branchMap |-> r.branchMap, fnMap |-> r.fnMap,
               statementMap |-> r.statementMap, branchHits |-> r.branchHits,
               fnHits |-> r.fnHits, statementHits |-> r.statementHits, lineMap |-> l]
    IN [path |-> rl.path, branchMap |-> rl.branchMap, fnMap |-> rl.fnMap,
        statementMap |-> rl.statementMap, branchHits |-> rl.branchHits,
        fnHits |-> rl.fnHits, statementHits |-> rl.statementHits, lineMap |-> rl.lineMap,
        metrics |-> calculateMetrics(rl)]

\* ProcessRawCoverage where a record that cannot be read clears the stored map.
processRawCoverage_clearOnError(map, rawCoverage) ==
    IF \E key \in DOMAIN rawCoverage : Malformed(rawCoverage[key])
    THEN [map |-> NoCoverageMap, fired |-> FALSE, raised |-> TRUE]
    ELSE [map |-> [key \in DOMAIN rawCoverage |-> FileCoverageResult(rawCoverage[key])],
          fired |-> TRUE, raised |-> FALSE]

\* CoverageMapManager.ProcessRawCoverage for a raw record that is present:
\* the reduce builds every file's result before _coverageMap is assigned, so
\* a throw of any constructor leaves the stored map as it was.
processRawCoverage(map, rawCoverage) ==
    IF \E key \in DOMAIN rawCoverage : Malformed(rawCoverage[key])
    THEN [map |-> map, fired |-> FALSE, raised |-> TRUE]
    ELSE [map |-> [key \in DOMAIN rawCoverage |-> FileCoverageResult(rawCoverage[key])],
          fired |-> TRUE, raised |-> FALSE]

\* Raw records.  Lines are 1-based; a statement spans one or two lines.
StatementLocs ==
    {CoverageLoc(1, 0, 1, 5), CoverageLoc(1, 0, 2, 5), CoverageLoc(2, 0, 2, 5),
     CoverageLoc(InvalidPos, 0, 1, 5)}

NoEntries == [k \in {} |-> 0]

\* The statement part of a raw record: s has a count for every statement, or
\* a count without a statement, or a statement without a count.
RawStatements ==
    UNION {[statementMap : [D -> StatementLocs], s : [D -> 0 .. MaxHits]] : D \in SUBSET {0, 1}}
        \cup {[statementMap |-> NoEntries, s |-> [k \in {0} |-> 1]],
              [statementMap |-> [k \in {0} |-> CoverageLoc(1, 0, 1, 5)], s |-> NoEntries]}

RawFunctions ==
    {[fnMap |-> NoEntries, f |-> NoEntries]}
        \cup {[fnMap |-> [k \in {0} |-> [name |-> "fn", loc |-> CoverageLoc(1, 0, 2, InvalidPos)]],
               f |-> [k \in {0} |-> h]] : h \in {MaxHits}}

RawBranches ==
    {[branchMap |-> NoEntries, b |-> NoEntries],
     [branchMap |-> [k \in {0} |-> [type |-> "if", loc |-> CoverageLoc(1, 0, 1, 5),
                                    locations |-> <<CoverageLoc(1, 0, 1, 5),
                                                    CoverageLoc(InvalidPos, InvalidPos, 1, 5)>>]],
      b |-> [k \in {0} |-> <<1, 0>>]]}

RawFile(path, st, fn, br, missing) ==
    [path |-> path, statementMap |-> st.statementMap, s |-> st.s,
     fnMap |-> fn.fnMap, f |-> fn.f, branchMap |-> br.branchMap, b |-> br.b,
     missing |-> missing]

\* Records that have all their maps.
RawFiles(path) ==
    {RawFile(path, st, fn, br, {}) : st \in RawStatements, fn \in RawFunctions, br \in RawBranches}

\* Records that lack one of their maps.
MalformedFiles(path) ==
    {RawFile(path, CHOOSE st \in RawStatements : DOMAIN st.s = {0, 1},
             CHOOSE fn \in RawFunctions : TRUE, CHOOSE br \in RawBranches : TRUE, {m}) :
        m \in MapNames}

\* A few records for a second file of a run.
FewRawFiles(path) ==
    MalformedFiles(path)
        \cup {x \in RawFiles(path) :
                 /\ DOMAIN x.s = {0} /\ DOMAIN x.statementMap = {0}
                 /\ x.statementMap[0] = CoverageLoc(1, 0, 1, 5)
                 /\ DOMAIN x.fnMap = {} /\ DOMAIN x.branchMap = {}}

\* The coverageMap of a run report: one file, or two files.
RawCoverages ==
    {[key \in {"f1"} |-> x] : x \in RawFiles("f1") \cup MalformedFiles("f1")}
        \cup {[key \in {"f1", "f2"} |-> IF key = "f1" THEN x ELSE y] :
                 x \in FewRawFiles("f1"), y \in FewRawFiles("f2")}

\* ParseTestResults hands the coverageMap of a report to ProcessRawCoverage;
\* a report without one changes nothing.
ProcessRawCoverage(present, rawCoverage) ==
    /\ nOps < MaxCoverageRuns
    /\ IF ~present
       THEN /\ UNCHANGED coverage
            /\ op' = [kind |-> "ProcessRawCoverage", file |-> "", texts |-> NoTexts,
                      raised |-> FALSE, present |-> FALSE]
       ELSE LET res == processRawCoverage(coverageMap, rawCoverage)
            IN /\ coverageMap' = res.map
               /\ onCoverageUpdated' = onCoverageUpdated + (IF res.fired THEN 1 ELSE 0)
               /\ op' = [kind |-> "ProcessRawCoverage", file |-> "", texts |-> NoTexts,
                         raised |-> res.raised, present |-> TRUE, rawCoverage |-> rawCoverage]
    /\ nOps' = nOps + 1
    /\ UNCHANGED <<heap, rootNode, fileTestNodes, jestDirs, timing, runs, stack, async>>

CoverageNext ==
    \/ \E rawCoverage \in RawCoverages : ProcessRawCoverage(TRUE, rawCoverage)
    \/ ProcessRawCoverage(FALSE, NoCoverageMap)

CoverageInit == Init /\ Len(jestDirs) = 1

SpecCoverage == CoverageInit /\ [][CoverageNext]_vars

Metrics == {"statements", "functions", "branches", "lines"}

\* The "no data" percentage of a metric without instances.
NoData == [kind |-> "no data", num |-> 0, den |-> 0]

\* C27: for each of the four metrics of a file record, when the instance
\* count is zero the percentage is a distinct "no data" value, never NaN and
\* never a raised error; otherwise it is hit count divided by instance count.
C27_NoDataOnZeroInstances ==
    \A file \in DOMAIN coverageMap : \A m \in Metrics :
        LET x == coverageMap[file].metrics[m]
        IN IF x.instanceCount = 0
           THEN x.percentage = NoData
           ELSE x.percentage = [kind |-> "number", num |-> x.hitCount, den |-> x.instanceCount]

\* C27 without the zero case: a metric with instances has hit count divided
\* by instance count as its percentage.
C27_RatioOnInstances ==
    \A file \in DOMAIN coverageMap : \A m \in Metrics :
        LET x == coverageMap[file].metrics[m]
        IN x.instanceCount # 0 =>
               x.percentage = [kind |-> "number", num |-> x.hitCount, den |-> x.instanceCount]

\* C28: if the raw coverage record of a run is malformed for any file, the
\* stored coverage map after processing is the same as before that run and
\* no "coverage updated" event is fired.
C28_MalformedRunSkipped ==
    [][(/\ op'.kind = "ProcessRawCoverage" /\ nOps' = nOps + 1
        /\ op'.present
        /\ \E key \in DOMAIN op'.rawCoverage : Malformed(op'.rawCoverage[key])) =>
           /\ coverageMap' = coverageMap
           /\ onCoverageUpdated' = onCoverageUpdated]_vars

\* A stored map of an earlier run survived a run with one good and one
\* malformed file.
C28_Witness ==
    /\ op.kind = "ProcessRawCoverage" /\ op.present
    /\ DOMAIN op.rawCoverage = {"f1", "f2"}
    /\ ~Malformed(op.rawCoverage["f1"]) /\ Malformed(op.rawCoverage["f2"])
    /\ coverageMap # NoCoverageMap
    /\ onCoverageUpdated = 1
    /\ nOps = 2

\* The statements of a file's result whose range covers a line.
Covering(r, line) ==
    {k \in DOMAIN r.statementMap \cap DOMAIN r.statementHits :
        r.statementMap[k].start.line <= line /\ line <= r.statementMap[k].end.line}

\* The statements of a file's result whose range starts on a line.
StartingOn(r, line) ==
    {k \in DOMAIN r.statementMap \cap DOMAIN r.statementHits :
        r.statementMap[k].start.line = line}

MaxOf(S) == CHOOSE x \in S : \A y \in S : y <= x

CoverageLines == -1 .. 2

\* C29: for every line that at least one statement of a file's coverage record
\* covers, the derived per-line hit count equals the maximum hit count over
\* all statements whose range covers that line.
C29_LineHitsMaxOfCovering ==
    \A file \in DOMAIN coverageMap : \A line \in CoverageLines :
        LET r == coverageMap[file]
        IN Covering(r, line) # {} =>
               /\ line \in DOMAIN r.lineMap
               /\ r.lineMap[line] = MaxOf({r.statementHits[k] : k \in Covering(r, line)})

\* C29 as the code has it: the lines of the line map are the lines a
\* statement starts on, and a line's hit count is the maximum hit count over
\* the statements that start on it.
C29_LineHitsMaxOfStarting ==
    \A file \in DOMAIN coverageMap :
        LET r == coverageMap[file]
        IN /\ DOMAIN r.lineMap = {line \in CoverageLines : StartingOn(r, line) # {}}
           /\ \A line \in DOMAIN r.lineMap :
                  r.lineMap[line] = MaxOf({r.statementHits[k] : k \in StartingOn(r, line)})

\* Two statements start on one line with different hit counts, the smaller
\* count on the later key.
C29_Witness ==
    \E file \in DOMAIN coverageMap :
        LET r == coverageMap[file]
        IN /\ DOMAIN r.statementHits = {0, 1} /\ DOMAIN r.statementMap = {0, 1}
           /\ r.statementMap[0].start.line = r.statementMap[1].start.line
           /\ r.statementMap[0].start.line # DefaultPosition
           /\ r.statementHits[0] > r.statementHits[1]
           /\ r.statementHits[1] > 0

(***************************************************************************)
(* utility.ts: Stack                                                       *)
(***************************************************************************)
\* Number of calls on one Stack in one behaviour.
MaxCalls == 6

Items == {"a", "b", "c"}

\* The value of a read beyond the items of the Stack.
Undefined == "undefined"

Length == offset + 1

IsEmpty == offset = -1

\* arry[i] of a 0-based array: undefined beyond its end.
At(a, i) == IF i + 1 \in DOMAIN a THEN a[i + 1] ELSE Undefined

Reverse(q) == [i \in 1 .. Len(q) |-> q[Len(q) + 1 - i]]

StackOp(kind, result) ==
    [kind |-> kind, file |-> "", texts |-> NoTexts, raised |-> FALSE, result |-> result]

StackFrame == <<heap, rootNode, fileTestNodes, jestDirs, timing, runs, coverage, async>>

Push(item) ==
    /\ nOps < MaxCalls
    /\ arry' = Append(arry, item)
    /\ offset' = offset + 1
    /\ lifo' = Append(lifo, item)
    /\ op' = StackOp("Push", item)
    /\ nOps' = nOps + 1
    /\ UNCHANGED StackFrame

Pop ==
    /\ nOps < MaxCalls
    /\ IF IsEmpty
       THEN /\ UNCHANGED <<arry, offset>>
            /\ op' = StackOp("Pop", Undefined)
       ELSE /\ offset' = offset - 1
            /\ arry' = IF (offset - 1) * 2 >= Len(arry)
                       THEN SubSeq(arry, 1, offset)
                       ELSE arry
            /\ op' = StackOp("Pop", At(arry, offset))
    /\ lifo' = IF lifo = <<>> THEN lifo ELSE SubSeq(lifo, 1, Len(lifo) - 1)
    /\ nOps' = nOps + 1
    /\ UNCHANGED StackFrame

Peek ==
    /\ nOps < MaxCalls
    /\ op' = StackOp("Peek", IF IsEmpty THEN Undefined ELSE At(arry, offset))
    /\ nOps' = nOps + 1
    /\ UNCHANGED <<StackFrame, stack, async>>

GetLength ==
    /\ nOps < MaxCalls
    /\ op' = StackOp("Length", Length)
    /\ nOps' = nOps + 1
    /\ UNCHANGED <<StackFrame, stack, async>>

ToArray(reverse) ==
    /\ nOps < MaxCalls
    /\ op' = StackOp(IF reverse THEN "ToArrayReverse" ELSE "ToArray",
                     IF IsEmpty THEN <<>>
                     ELSE IF reverse THEN [i \in 1 .. offset + 1 |-> At(arry, i - 1)]
                     ELSE [i \in 1 .. offset + 1 |-> At(arry, offset + 1 - i)])
    /\ nOps' = nOps + 1
    /\ UNCHANGED <<StackFrame, stack, async>>

StackInit == Init /\ Len(jestDirs) = 1

StackNext ==
    \/ \E item \in Items : Push(item)
    \/ Pop
    \/ Peek
    \/ GetLength
    \/ ToArray(FALSE)
    \/ ToArray(TRUE)

SpecStack == StackInit /\ [][StackNext]_vars

\* The most recently pushed item that has not been popped.
Top == IF lifo = <<>> THEN Undefined ELSE lifo[Len(lifo)]

\* C30: Stack behaves as a last-in-first-out sequence under any interleaving
\* of Push, Pop and Peek: Pop and Peek return the most recently pushed item
\* not yet popped (undefined when empty), Length is the number of such items,
\* and ToArray lists exactly those items, top first.
C30_StackIsLastInFirstOut ==
    [][nOps' = nOps + 1 =>
          /\ op'.kind \in {"Pop", "Peek"} => op'.result = Top
          /\ op'.kind = "Length" => op'.result = Len(lifo)
          /\ op'.kind = "ToArray" => op'.result = Reverse(lifo)]_vars

\* C30 for a Stack that has never been pushed onto after a Pop: as long as
\* the array holds nothing above the top, the Stack is a last-in-first-out sequence.
C30_LastInFirstOutWhileCompact ==
    [][(nOps' = nOps + 1 /\ Len(arry) = offset + 1) =>
          /\ op'.kind \in {"Pop", "Peek"} => op'.result = Top
          /\ op'.kind = "Length" => op'.result = Len(lifo)
          /\ op'.kind = "ToArray" => op'.result = Reverse(lifo)]_vars

(***************************************************************************)
(* Further properties of reconciliation and merge                          *)
(***************************************************************************)
FileEntries(locs, f) == Filter(locs, {fi \in SeqToSet(locs) : fi.file = f})

\* The Suites of the tree that the parse of an operation declares.
RedeclaredSuites(h, root, parse) ==
    {s \in Suites(h, InTree(h, root)) :
        \E d \in DeclaredSuites(parse, "") : d[1] = fqName(h, s)}

\* C31: reconciling file F updates, for every Suite present in both the tree
\* and the fresh parse of F, exactly that Suite's location entries for F:
\* afterwards its foundIn and nameFoundIn entries for F are the freshly
\* parsed block location and name location, and its entries for other files
\* are unchanged.
C31_SuiteLocationsRefreshed ==
    [][(op'.kind = "Changed" /\ ~op'.raised) =>
          LET f == ChangedFile(op')
          IN \A s \in RedeclaredSuites(heap, rootNode, ChangedParse(op')) :
                 \A d \in DeclaredSuites(ChangedParse(op'), "") :
                     d[1] = fqName(heap, s) =>
                         /\ FileEntries(heap'[s].foundIn, f) = <<d[2]>>
                         /\ FileEntries(heap'[s].nameFoundIn, f) = <<d[3]>>
                         /\ OtherFileEntries(heap'[s].foundIn, f) = OtherFileEntries(heap[s].foundIn, f)
                         /\ OtherFileEntries(heap'[s].nameFoundIn, f) =
                                OtherFileEntries(heap[s].nameFoundIn, f)]_vars

\* C31 for the block locations alone.
C31_BlockLocationsRefreshed ==
    [][(op'.kind = "Changed" /\ ~op'.raised) =>
          LET f == ChangedFile(op')
          IN \A s \in RedeclaredSuites(heap, rootNode, ChangedParse(op')) :
                 \A d \in DeclaredSuites(ChangedParse(op'), "") :
                     d[1] = fqName(heap, s) =>
                         /\ FileEntries(heap'[s].foundIn, f) = <<d[2]>>
                         /\ OtherFileEntries(heap'[s].foundIn, f) = OtherFileEntries(heap[s].foundIn, f)
                         /\ OtherFileEntries(heap'[s].nameFoundIn, f) =
                                OtherFileEntries(heap[s].nameFoundIn, f)]_vars

\* Every Suite and Case the parse of file f declares is reachable from the
\* root under its fully-qualified name, a Case as a Case of f.
DeclarationsReachable(h, root, f, parse) ==
    /\ \A name \in DeclaredNames(parse, "", "it") :
           \E n \in Cases(h, InTree(h, root)) : fqName(h, n) = name /\ h[n].file = f
    /\ \A name \in DeclaredNames(parse, "", "describe") :
           \E n \in Suites(h, InTree(h, root)) : fqName(h, n) = name

\* C32: after reconciling file F, every Suite and Case declared in the fresh
\* parse of F is reachable from the root through child lists under its
\* fully-qualified name, for any earlier history of the tree, including a
\* Suite whose node was pruned earlier and is now declared again.
C32_ReconciledDeclarationsReachable ==
    (op.kind = "Changed" /\ ~op.raised) =>
        DeclarationsReachable(heap, rootNode, op.file, ChangedParse(op))

\* No Suite was ever removed from the tree: no detached Suite is left in a
\* childDescribesMap.
NoStaleDescribes(h, root) ==
    \A n \in InTree(h, root) : \A name \in Names :
        h[n].childDescribesMap[name] # 0 => Includes(h[n].children, h[n].childDescribesMap[name])

\* C32 for a tree that holds no stale childDescribesMap entry.
C32_ReachableWithoutStaleDescribes ==
    [][(op'.kind = "Changed" /\ ~op'.raised /\ NoStaleDescribes(heap, rootNode)) =>
          DeclarationsReachable(heap', rootNode', op'.file, ChangedParse(op'))]_vars

\* C33: after the merge triggered by a file-created event for file F, every
\* Suite and Case declared in F is reachable from the root through child
\* lists, for any earlier history of the tree, including when F or a Suite it
\* declares was deleted from the tree before.
C33_CreatedDeclarationsReachable ==
    (op.kind = "FileCreated" /\ ~op.raised) =>
        DeclarationsReachable(heap, rootNode, op.file, CreatedParse(op))

\* C33 for a tree that holds no stale childDescribesMap entry.
C33_ReachableWithoutStaleDescribes ==
    [][(op'.kind = "FileCreated" /\ ~op'.raised /\ NoStaleDescribes(heap, rootNode)) =>
          DeclarationsReachable(heap', rootNode', op'.file, CreatedParse(op'))]_vars

\* The Suite has a foundIn entry for the owning file of every Case beneath it.
LocatedInCaseFiles(h, s) ==
    \A c \in Cases(h, Reachable(h, s)) : h[c].file \in FoundInFiles(h, s)

\* C34: after any sequence of full discovery, file-created merge,
\* reconciliation and file deletion, every Suite reachable from the root has
\* a foundIn entry for the owning file of each Case reachable beneath it.
C34_SuiteLocatedInCaseFiles ==
    \A s \in Suites(heap, InTree(heap, rootNode)) : LocatedInCaseFiles(heap, s)

\* C34 right after a full discovery of a single project, where no Suite has
\* been merged into another.
C34_LocatedAfterOneProjectDiscovery ==
    (op.kind = "LoadTests" /\ ~op.raised /\ Len(jestDirs) = 1) =>
        \A s \in Suites(heap, InTree(heap, rootNode)) : LocatedInCaseFiles(heap, s)

\* For every name, the tree holds as many Cases of file f as the parse declares.
CaseCountsMatch(h, root, f, parse) ==
    \A fq \in DeclaredNames(parse, "", "it")
              \cup {fqName(h, c) : c \in {n \in Cases(h, InTree(h, root)) : h[n].file = f}} :
        Cardinality(CasesOf(h, root, f, fq)) = NumCasesNamed(parse, "", fq)

\* C35: after reconciling file F, for every fully-qualified name the number
\* of Case nodes owned by F with that name that are reachable from the root
\* equals the number of Case declarations with that name in the fresh parse
\* of F, also when several Cases share a name at the same nesting level.
C35_CaseCountsMatchParse ==
    (op.kind = "Changed" /\ ~op.raised) =>
        CaseCountsMatch(heap, rootNode, op.file, ChangedParse(op))


\* The last edit of file f in the log; 0 when there is none.
LastEditOf(l, f) ==
    LET es == {j \in Edits(l) : l[j].file = f}
    IN IF es = {} THEN 0 ELSE CHOOSE j \in es : \A k \in es : k <= j

\* The last edit of file f has been followed by a reconciliation of f with
\* the text that edit left.
LatestReconciled(l, f) ==
    \E i \in Reconciliations(l) :
        /\ LastEditOf(l, f) < i
        /\ l[i].file = f
        /\ l[i].text = l[LastEditOf(l, f)].text

\* C36: when the last edits of two different known files are less than one
\* debounce interval apart and no edit follows them, then once no
\* reconciliation timer is pending a reconciliation has run for each of the
\* two files after its last edit, with the text that edit left.
C36_BothFilesReconciled ==
    \A a \in Files : \A b \in Files \ {a} :
        LET j == LastEditOf(log, a)
            k == LastEditOf(log, b)
        IN (/\ j # 0 /\ k # 0 /\ j < k
            /\ log[k].time - log[j].time < ParseWait
            /\ PendingParses = {})
           => LatestReconciled(log, a) /\ LatestReconciled(log, b)


\* C37: a file whose edits trigger a reconciliation before a reconciliation
\* (of that file or of another one) runs is still such a file after it,
\* whatever the reconciled text declares.
C37_KnownFileStaysKnown ==
    [][op'.kind = "Changed" =>
          \A f \in Files : fileTestNodes[f].known => fileTestNodes'[f].known]_vars


\* C38: a full discovery that fails (a file of some project does not parse)
\* leaves the installed tree, every node of it and the per-file node index
\* as they were, and fires no "tree replaced" event.
C38_FailedDiscoveryKeepsTree ==
    [][(op'.kind = "LoadTests" /\ op'.raised) =>
          /\ rootNode' = rootNode
          /\ heap' = heap
          /\ fileTestNodes' = fileTestNodes
          /\ ~op'.fired]_vars

\* A full discovery has failed while a tree with Cases was installed and a
\* file was known.
C38_Witness ==
    /\ op.kind = "LoadTests" /\ op.raised
    /\ rootNode # 0
    /\ heap[rootNode].itBlocks # <<>>
    /\ \E f \in Files : fileTestNodes[f].known


(***************************************************************************)
(* A full discovery in flight while files are created: LoadTests awaits    *)
(* the listing and the parse of the files, handleFileCreated awaits the    *)
(* parse of the created file, and the callbacks run in either order.       *)
(***************************************************************************)
\* Number of full discoveries in one behaviour with files being created.
MaxDiscoveries == 2

\* What a created file holds.
WrittenTexts == {1, 2}

\* What parseFiles reads: a file that is not listed contributes what an empty
\* file contributes, nothing.
Listed(d) == [f \in Files |-> IF d[f] = 0 THEN 4 ELSE d[f]]

\* A file appears on disk.  Once the watchers are registered onDidCreate is
\* delivered and handleFileCreated starts discoverTestsForFile for the file.
OnDidCreate(f, t) ==
    /\ disk[f] = 0
    /\ disk' = [disk EXCEPT ![f] = t]
    /\ creating' = IF watching THEN creating \cup {f} ELSE creating
    /\ raced' = IF watching /\ discovery.stage # "idle" THEN raced \cup {f} ELSE raced
    /\ op' = [kind |-> "Created", file |-> f, texts |-> [NoTexts EXCEPT ![f] = t],
              raised |-> FALSE]
    /\ UNCHANGED <<heap, rootNode, fileTestNodes, jestDirs, nOps, timing, runs,
                   coverage, stack, discovery>>

\* discoverTestsForFile resolves: the two then-callbacks of handleFileCreated
\* merge the parsed file into the tree installed now.
CreatedFileParsed(f) ==
    /\ f \in creating
    /\ creating' = creating \ {f}
    /\ LET r == loadTestsForParseResult(heap, Text(f, disk[f]))
       IN IF rootNode # 0
          THEN heap' = mergeWith(r.h, rootNode, r.ret) /\ rootNode' = rootNode
          ELSE heap' = r.h /\ rootNode' = r.ret
    /\ fileTestNodes' = IF fileTestNodes[f].known THEN fileTestNodes
                        ELSE [fileTestNodes EXCEPT ![f] = [known |-> TRUE, nodes |-> <<>>]]
    /\ op' = [kind |-> "FileCreated", file |-> f,
              texts |-> [NoTexts EXCEPT ![f] = disk[f]], raised |-> FALSE]
    /\ UNCHANGED <<jestDirs, nOps, timing, runs, coverage, stack, disk, discovery, raced>>

\* TestCommands.discoverTests calls LoadTests, which asks for the listing of
\* the project.
DiscoveryStarts ==
    /\ nOps < MaxDiscoveries
    /\ discovery.stage = "idle"
    /\ discovery' = [stage |-> "listing", texts |-> NoTexts]
    /\ op' = [kind |-> "DiscoveryStarted", file |-> "", texts |-> NoTexts, raised |-> FALSE]
    /\ nOps' = nOps + 1
    /\ UNCHANGED <<heap, rootNode, fileTestNodes, jestDirs, timing, runs, coverage, stack,
                   disk, creating, raced>>

\* jest --listTests returns and parseFiles reads the files it listed.
DiscoveryReads ==
    /\ discovery.stage = "listing"
    /\ discovery' = [stage |-> "parsed", texts |-> disk]
    /\ op' = [kind |-> "DiscoveryRead", file |-> "", texts |-> disk, raised |-> FALSE]
    /\ UNCHANGED <<heap, rootNode, fileTestNodes, jestDirs, nOps, timing, runs, coverage,
                   stack, disk, creating, raced>>

\* The awaits of LoadTests have returned: the tree is built from what was
\* read, installed, indexed and announced.
DiscoveryInstalls ==
    /\ discovery.stage = "parsed"
    /\ \E r \in {loadTests(heap, rootNode, fileTestNodes, jestDirs, Listed(discovery.texts))} :
          /\ heap' = r.heap
          /\ rootNode' = r.rootNode
          /\ fileTestNodes' = r.fileTestNodes
          /\ op' = [kind |-> "LoadTests", file |-> "", texts |-> discovery.texts,
                    raised |-> r.raised, fired |-> r.fired]
    /\ discovery' = [stage |-> "idle", texts |-> NoTexts]
    /\ UNCHANGED <<jestDirs, nOps, timing, runs, coverage, stack, disk, creating, raced>>

RaceNext ==
    \/ \E f \in Files, t \in WrittenTexts : OnDidCreate(f, t)
    \/ \E f \in Files : CreatedFileParsed(f)
    \/ DiscoveryStarts
    \/ DiscoveryReads
    \/ DiscoveryInstalls

\* One project holds both files.
RaceInit == Init /\ Len(jestDirs) = 1

SpecRace == RaceInit /\ [][RaceNext]_vars

\* C39: when the file-created event of file F was handled while a full
\* discovery was in flight, then once that discovery and the parse of F have
\* both completed the tree holds, for every name, as many Cases of F as F
\* declares with that name.
C39_OneCasePerDeclaration ==
    \A f \in raced :
        (discovery.stage = "idle" /\ f \notin creating)
            => CaseCountsMatch(heap, rootNode, f, Text(f, disk[f]))


\* C40: once every run has finished, the report of each of its directories
\* correlated, no Case of the tree is marked running, whatever statuses the
\* reports carried and whether or not a Case already held a result.
C40_FinishedRunsLeaveNoCaseRunning ==
    (runs # <<>> /\ \A r \in 1 .. Len(runs) : runs[r].phase = "done")
        => \A c \in Cases(heap, InTree(heap, rootNode)) : ~heap[c].running

====
